---- MODULE Spec2Model ----
(***************************************************************************)
(* Rebalancing state machine of the two-position liquidity strategy        *)
(* (CustomPoolStrategy) together with the liquidity manager, the oracle    *)
(* and the position manager / pool / swap router it drives.                *)
(*                                                                         *)
(* Token amounts are whole tokens of two tokens with equal decimals, so    *)
(* formatUnits / parseUnits are the identity on the amounts used here and  *)
(* the decimal term of the tick formula is zero.  Prices are the integers  *)
(* returned by the oracle; the price points of the range plan are kept in  *)
(* hundredths and raw ticks in thousandths of a tick.                      *)
(***************************************************************************)
EXTENDS Integers, Sequences, FiniteSets, TLC

\* ---------------------------------------------------------------- bounds
MaxTokenId == 4
MaxFee == 1

\* ------------------------------------------------------ program constants
WidthPercent == 20
TickSpacing == 60
SlippageFactor == 98

\* Pool states the environment moves between: the tick where the first
\* positions are opened, and the ticks at and just beyond the thresholds
\* of the positions opened there.
InitialTicks == {78245}
PoolTicks == {77039, 77040, 78245, 79320, 79321}

InitialWallets ==
  { [token0 |-> 2, token1 |-> 5000],
    [token0 |-> 4, token1 |-> 0] }

\* Configurations the strategy is started with: the configured width and
\* one so narrow that two planned ticks fall into the same spacing step.
WidthPercents == {WidthPercent, 1}
Configs == { [widthPercent |-> w, tickSpacing |-> TickSpacing] : w \in WidthPercents }

\* Inputs of the range planner checked on their own: prices from 1 to
\* 40000, widths from 1% to 180% and the tick spacings of the fee tiers,
\* restricted to the pairs whose price points are whole hundredths.
PlanPrices == {1, 20, 2500, 40000}
PlanWidths == {1, 2, 20, 100, 180}
PlanSpacings == {1, 10, 60, 200}

\* Ticks converted to a price and back: at and around the step of 50000,
\* below it, and up to three steps.
RoundTripTicks == {46055, 50000, 50001, 69082, 78245, 100000, 120000, 150000}

\* Raw ticks, in thousandths, the alignment is checked on by itself:
\* negative and positive ones, exact multiples of every spacing, ticks just
\* beside a multiple and fractional ticks.
AlignTicks ==
  {-887272000, -78245500, -600000, -60001, -60000, -59999, -1, 0, 1, 500,
   59999, 60000, 60001, 600000, 78239600, 887272000}

Max(a, b) == IF a >= b THEN a ELSE b

\* ------------------------------------------------------------ tick maths

\* OracleService.fetchUniswapPrice: sqrtPriceX96^2 * 10^(d0-d1) / 2^192 in
\* integer arithmetic, i.e. the integer part of 1.0001^tick.
PoolPrice(tick) ==
  CASE tick = 77039 -> 2216
    [] tick = 77040 -> 2216
    [] tick = 78245 -> 2500
    [] tick = 79320 -> 2783
    [] tick = 79321 -> 2784

\* CustomPoolStrategy.priceToTick: ln(price) / ln(1.0001), not rounded.
\* Argument in hundredths, result in thousandths of a tick (rounded down),
\* tabulated at the price points the range plan reaches from the pool
\* prices above and from the planner inputs below, and at the prices of
\* the ticks converted back and forth.
priceToTick(price100) ==
  CASE price100 = 199440 -> 75984784
    [] price100 = 219384 -> 76937933
    [] price100 = 243760 -> 77991591
    [] price100 = 225000 -> 77190714
    [] price100 = 247500 -> 78143863
    [] price100 = 275000 -> 79197521
    [] price100 = 250470 -> 78263155
    [] price100 = 275517 -> 79216304
    [] price100 = 306130 -> 80269962
    [] price100 = 250560 -> 78266748
    [] price100 = 275616 -> 79219897
    [] price100 = 306240 -> 80273555
    [] price100 = 110 -> 953149
    [] price100 = 99 -> -100509
    [] price100 = 90 -> -1053658
    [] price100 = 150 -> 4054853
    [] price100 = 95 -> -512959
    [] price100 = 50 -> -6931819
    [] price100 = 190 -> 6418859
    [] price100 = 91 -> -943154
    [] price100 = 10 -> -23027003
    [] price100 = 2010 -> 30008698
    [] price100 = 1999 -> 29953819
    [] price100 = 1990 -> 29908692
    [] price100 = 2020 -> 30058328
    [] price100 = 1998 -> 29948815
    [] price100 = 1980 -> 29858312
    [] price100 = 2200 -> 30911970
    [] price100 = 1800 -> 28905162
    [] price100 = 3000 -> 34013674
    [] price100 = 1900 -> 29445861
    [] price100 = 1000 -> 23027002
    [] price100 = 3800 -> 36377680
    [] price100 = 1820 -> 29015666
    [] price100 = 200 -> 6931818
    [] price100 = 251250 -> 78294249
    [] price100 = 249875 -> 78239370
    [] price100 = 248750 -> 78194244
    [] price100 = 252500 -> 78343880
    [] price100 = 249750 -> 78234366
    [] price100 = 375000 -> 82299225
    [] price100 = 237500 -> 77731413
    [] price100 = 125000 -> 71312553
    [] price100 = 475000 -> 84663231
    [] price100 = 227500 -> 77301218
    [] price100 = 25000 -> 55217369
    [] price100 = 4020000 -> 106021523
    [] price100 = 3998000 -> 105966644
    [] price100 = 3980000 -> 105921517
    [] price100 = 4040000 -> 106071153
    [] price100 = 3996000 -> 105961640
    [] price100 = 3960000 -> 105871137
    [] price100 = 4400000 -> 106924795
    [] price100 = 3600000 -> 104917987
    [] price100 = 6000000 -> 110026499
    [] price100 = 3800000 -> 105458686
    [] price100 = 2000000 -> 99039827
    [] price100 = 7600000 -> 112390505
    [] price100 = 3640000 -> 105028491
    [] price100 = 400000 -> 82944643
    [] price100 = 10001 -> 46055004
    [] price100 = 14838 -> 50000265
    [] price100 = 14839 -> 50000939
    [] price100 = 100010 -> 69082006
    [] price100 = 250016 -> 78245012
    [] price100 = 2201546 -> 100000001
    [] price100 = 16265717 -> 119999999
    [] price100 = 326656669 -> 149999999

\* The prices, in hundredths, priceToTick is tabulated at.
TabulatedPrices ==
  {10, 50, 90, 91, 95, 99, 110, 150,
   190, 200, 1000, 1800, 1820, 1900, 1980, 1990,
   1998, 1999, 2010, 2020, 2200, 3000, 3800, 10001,
   14838, 14839, 25000, 100010, 125000, 199440, 219384, 225000,
   227500, 237500, 243760, 247500, 248750, 249750, 249875, 250016,
   250470, 250560, 251250, 252500, 275000, 275517, 275616, 306130,
   306240, 375000, 400000, 475000, 2000000, 2201546, 3600000, 3640000,
   3800000, 3960000, 3980000, 3996000, 3998000, 4020000, 4040000, 4400000,
   6000000, 7600000, 16265717, 326656669}

\* Variant: the remainder of the tick beyond the steps of 50000 is dropped.
tickToPriceRemainderDropped(tickMilli) ==
  CASE tickMilli = 46055000 -> 10001
    [] tickMilli = 46055004 -> 10001
    [] tickMilli = 46054000 -> 10000
    [] tickMilli = 46056000 -> 10002
    [] tickMilli = 46045000 -> 9991
    [] tickMilli = 46065000 -> 10011
    [] tickMilli = 45995000 -> 9941
    [] tickMilli = 46115000 -> 10061
    [] tickMilli = 45855000 -> 9803
    [] tickMilli = 46255000 -> 10203
    [] tickMilli = 50000000 -> 14838
    [] tickMilli = 50000265 -> 14838
    [] tickMilli = 49999000 -> 14836
    [] tickMilli = 50001000 -> 14838
    [] tickMilli = 49990000 -> 14823
    [] tickMilli = 50010000 -> 14838
    [] tickMilli = 49940000 -> 14749
    [] tickMilli = 50060000 -> 14838
    [] tickMilli = 49800000 -> 14544
    [] tickMilli = 50200000 -> 14838
    [] tickMilli = 50000939 -> 14838
    [] tickMilli = 50002000 -> 14838
    [] tickMilli = 49991000 -> 14824
    [] tickMilli = 50011000 -> 14838
    [] tickMilli = 49941000 -> 14750
    [] tickMilli = 50061000 -> 14838
    [] tickMilli = 49801000 -> 14545
    [] tickMilli = 50201000 -> 14838
    [] tickMilli = 69082000 -> 14838
    [] tickMilli = 69082006 -> 14838
    [] tickMilli = 69081000 -> 14838
    [] tickMilli = 69083000 -> 14838
    [] tickMilli = 69072000 -> 14838
    [] tickMilli = 69092000 -> 14838
    [] tickMilli = 69022000 -> 14838
    [] tickMilli = 69142000 -> 14838
    [] tickMilli = 68882000 -> 14838
    [] tickMilli = 69282000 -> 14838
    [] tickMilli = 78245000 -> 14838
    [] tickMilli = 78245012 -> 14838
    [] tickMilli = 78244000 -> 14838
    [] tickMilli = 78246000 -> 14838
    [] tickMilli = 78235000 -> 14838
    [] tickMilli = 78255000 -> 14838
    [] tickMilli = 78185000 -> 14838
    [] tickMilli = 78305000 -> 14838
    [] tickMilli = 78045000 -> 14838
    [] tickMilli = 78445000 -> 14838
    [] tickMilli = 100000000 -> 2201546
    [] tickMilli = 100000001 -> 2201546
    [] tickMilli = 99999000 -> 14838
    [] tickMilli = 100001000 -> 2201546
    [] tickMilli = 99990000 -> 14838
    [] tickMilli = 100010000 -> 2201546
    [] tickMilli = 99940000 -> 14838
    [] tickMilli = 100060000 -> 2201546
    [] tickMilli = 99800000 -> 14838
    [] tickMilli = 100200000 -> 2201546
    [] tickMilli = 120000000 -> 2201546
    [] tickMilli = 119999999 -> 2201546
    [] tickMilli = 119999000 -> 2201546
    [] tickMilli = 120001000 -> 2201546
    [] tickMilli = 119990000 -> 2201546
    [] tickMilli = 120010000 -> 2201546
    [] tickMilli = 119940000 -> 2201546
    [] tickMilli = 120060000 -> 2201546
    [] tickMilli = 119800000 -> 2201546
    [] tickMilli = 120200000 -> 2201546
    [] tickMilli = 150000000 -> 326656669
    [] tickMilli = 149999999 -> 2201546
    [] tickMilli = 149999000 -> 2201546
    [] tickMilli = 150001000 -> 326656669
    [] tickMilli = 149990000 -> 2201546
    [] tickMilli = 150010000 -> 326656669
    [] tickMilli = 149940000 -> 2201546
    [] tickMilli = 150060000 -> 326656669
    [] tickMilli = 149800000 -> 2201546
    [] tickMilli = 150200000 -> 326656669

\* LiquidityManager.tickToPrice: 1.0001^tick, computed directly up to
\* |tick| = 50000 and beyond it in steps of 1.0001^50000 times the power
\* of the remainder.  Argument in thousandths of a tick, result in
\* hundredths (rounded), tabulated at the ticks converted back and forth
\* and at one spacing to either side of them.
tickToPrice(tickMilli) ==
  CASE tickMilli = 46055000 -> 10001
    [] tickMilli = 46055004 -> 10001
    [] tickMilli = 46054000 -> 10000
    [] tickMilli = 46056000 -> 10002
    [] tickMilli = 46045000 -> 9991
    [] tickMilli = 46065000 -> 10011
    [] tickMilli = 45995000 -> 9941
    [] tickMilli = 46115000 -> 10061
    [] tickMilli = 45855000 -> 9803
    [] tickMilli = 46255000 -> 10203
    [] tickMilli = 50000000 -> 14838
    [] tickMilli = 50000265 -> 14838
    [] tickMilli = 49999000 -> 14836
    [] tickMilli = 50001000 -> 14839
    [] tickMilli = 49990000 -> 14823
    [] tickMilli = 50010000 -> 14852
    [] tickMilli = 49940000 -> 14749
    [] tickMilli = 50060000 -> 14927
    [] tickMilli = 49800000 -> 14544
    [] tickMilli = 50200000 -> 15137
    [] tickMilli = 50000939 -> 14839
    [] tickMilli = 50002000 -> 14841
    [] tickMilli = 49991000 -> 14824
    [] tickMilli = 50011000 -> 14854
    [] tickMilli = 49941000 -> 14750
    [] tickMilli = 50061000 -> 14928
    [] tickMilli = 49801000 -> 14545
    [] tickMilli = 50201000 -> 15139
    [] tickMilli = 69082000 -> 100010
    [] tickMilli = 69082006 -> 100010
    [] tickMilli = 69081000 -> 100000
    [] tickMilli = 69083000 -> 100020
    [] tickMilli = 69072000 -> 99910
    [] tickMilli = 69092000 -> 100110
    [] tickMilli = 69022000 -> 99412
    [] tickMilli = 69142000 -> 100612
    [] tickMilli = 68882000 -> 98030
    [] tickMilli = 69282000 -> 102030
    [] tickMilli = 78245000 -> 250016
    [] tickMilli = 78245012 -> 250016
    [] tickMilli = 78244000 -> 249991
    [] tickMilli = 78246000 -> 250041
    [] tickMilli = 78235000 -> 249766
    [] tickMilli = 78255000 -> 250266
    [] tickMilli = 78185000 -> 248520
    [] tickMilli = 78305000 -> 251520
    [] tickMilli = 78045000 -> 245065
    [] tickMilli = 78445000 -> 255066
    [] tickMilli = 100000000 -> 2201546
    [] tickMilli = 100000001 -> 2201546
    [] tickMilli = 99999000 -> 2201325
    [] tickMilli = 100001000 -> 2201766
    [] tickMilli = 99990000 -> 2199345
    [] tickMilli = 100010000 -> 2203748
    [] tickMilli = 99940000 -> 2188377
    [] tickMilli = 100060000 -> 2214794
    [] tickMilli = 99800000 -> 2157954
    [] tickMilli = 100200000 -> 2246018
    [] tickMilli = 120000000 -> 16265717
    [] tickMilli = 119999999 -> 16265716
    [] tickMilli = 119999000 -> 16264091
    [] tickMilli = 120001000 -> 16267344
    [] tickMilli = 119990000 -> 16249461
    [] tickMilli = 120010000 -> 16281990
    [] tickMilli = 119940000 -> 16168420
    [] tickMilli = 120060000 -> 16363600
    [] tickMilli = 119800000 -> 15943651
    [] tickMilli = 120200000 -> 16594290
    [] tickMilli = 150000000 -> 326656669
    [] tickMilli = 149999999 -> 326656637
    [] tickMilli = 149999000 -> 326624007
    [] tickMilli = 150001000 -> 326689335
    [] tickMilli = 149990000 -> 326330192
    [] tickMilli = 150010000 -> 326983473
    [] tickMilli = 149940000 -> 324702695
    [] tickMilli = 150060000 -> 328622402
    [] tickMilli = 149800000 -> 320188754
    [] tickMilli = 150200000 -> 333255238

\* Variant: rounding up always moves to the next multiple, an exact
\* multiple included.
alignTickAlwaysSteps(tickMilli, tickSpacing, roundUp) ==
  LET unit == 1000 * tickSpacing
      down == tickMilli \div unit
  IN IF roundUp THEN (down + 1) * tickSpacing ELSE down * tickSpacing

\* Variant: the quotient is truncated toward zero, as `|` or Math.trunc do.
alignTickTruncating(tickMilli, tickSpacing, roundUp) ==
  LET unit == 1000 * tickSpacing
      magnitude == IF tickMilli < 0 THEN 0 - tickMilli ELSE tickMilli
      truncated == IF tickMilli < 0
                     THEN 0 - (magnitude \div unit)
                     ELSE magnitude \div unit
  IN IF roundUp /\ tickMilli % unit # 0
       THEN (truncated + 1) * tickSpacing
       ELSE truncated * tickSpacing

\* LiquidityManager.alignTickToSpacing as called by alignTick: the multiple
\* of the spacing at or beyond the raw tick in the requested direction.
alignTick(tickMilli, tickSpacing, roundUp) ==
  LET unit == 1000 * tickSpacing
      down == tickMilli \div unit
  IN IF roundUp /\ tickMilli % unit # 0
       THEN (down + 1) * tickSpacing
       ELSE down * tickSpacing

\* The three price points of the range plan, in hundredths.
PricePoints(currentPrice, widthPercent) ==
  LET price100 == currentPrice * 100
      priceRange == currentPrice * widthPercent
      overlapAmount == (priceRange * 5) \div 100
  IN [ upperPositionUpperPrice |-> price100 + priceRange \div 2,
       transitionPrice |-> price100 - overlapAmount,
       lowerPositionLowerPrice |-> price100 - priceRange \div 2 ]

\* Variant: the upper bound is rounded down like the other two ticks.
PlanRangesUpperRoundedDown(currentPrice, widthPercent, tickSpacing) ==
  LET points == PricePoints(currentPrice, widthPercent)
      alignedUpper ==
        alignTick(priceToTick(points.upperPositionUpperPrice), tickSpacing, FALSE)
      alignedTransition ==
        alignTick(priceToTick(points.transitionPrice), tickSpacing, FALSE)
      alignedLower ==
        alignTick(priceToTick(points.lowerPositionLowerPrice), tickSpacing, FALSE)
  IN [ lowerPositionTicks |-> [lower |-> alignedLower, upper |-> alignedTransition],
       upperPositionTicks |-> [lower |-> alignedTransition, upper |-> alignedUpper] ]

\* Variant: the upper range starts at the transition tick rounded up, the
\* lower range ends at the transition tick rounded down.
PlanRangesTransitionSplit(currentPrice, widthPercent, tickSpacing) ==
  LET points == PricePoints(currentPrice, widthPercent)
      alignedUpper ==
        alignTick(priceToTick(points.upperPositionUpperPrice), tickSpacing, TRUE)
      alignedTransition ==
        alignTick(priceToTick(points.transitionPrice), tickSpacing, FALSE)
      alignedTransitionUp ==
        alignTick(priceToTick(points.transitionPrice), tickSpacing, TRUE)
      alignedLower ==
        alignTick(priceToTick(points.lowerPositionLowerPrice), tickSpacing, FALSE)
  IN [ lowerPositionTicks |-> [lower |-> alignedLower, upper |-> alignedTransition],
       upperPositionTicks |-> [lower |-> alignedTransitionUp, upper |-> alignedUpper] ]

\* The range plan of rebalanceAndOpenPositions: price points, raw ticks and
\* their alignment (upper bound up, transition and lower bound down).
PlanRanges(currentPrice, widthPercent, tickSpacing) ==
  LET points == PricePoints(currentPrice, widthPercent)
      alignedUpper ==
        alignTick(priceToTick(points.upperPositionUpperPrice), tickSpacing, TRUE)
      alignedTransition ==
        alignTick(priceToTick(points.transitionPrice), tickSpacing, FALSE)
      alignedLower ==
        alignTick(priceToTick(points.lowerPositionLowerPrice), tickSpacing, FALSE)
  IN [ lowerPositionTicks |-> [lower |-> alignedLower, upper |-> alignedTransition],
       upperPositionTicks |-> [lower |-> alignedTransition, upper |-> alignedUpper] ]

\* ------------------------------------------------------------ the ledger

\* A ledger slot holding null.
NoPosition ==
  [tokenId |-> 0, tickLower |-> 0, tickUpper |-> 0,
   token0Amount |-> 0, token1Amount |-> 0]

IsNull(position) == position.tokenId = 0

NoFrame ==
  [lowerPositionTicks |-> [lower |-> 0, upper |-> 0],
   upperPositionTicks |-> [lower |-> 0, upper |-> 0],
   totalToken0 |-> 0, totalToken1 |-> 0,
   totalToken1Left |-> 0, currentPrice |-> 0]

\* OracleService before initialize: tickSpacing is null.
NoSpacing == 0
NoResult ==
  [op |-> "none", ok |-> TRUE, value |-> 0, tick |-> 0, reads |-> 0, readOk |-> TRUE]
NoOracle == [tickSpacing |-> NoSpacing, readUninitialized |-> FALSE, result |-> NoResult]

\* OracleService.initialize: the tick spacing is the last value it reads
\* from the pool, so a rejected initialize leaves it unset.
oracleInitialize(o, ok, tickSpacing) ==
  IF ok THEN [o EXCEPT !.tickSpacing = tickSpacing] ELSE o

\* OracleService.getTickSpacing returns the field as it is.
getTickSpacing(o) ==
  [op |-> "getTickSpacing", ok |-> TRUE, value |-> o.tickSpacing,
   tick |-> 0, reads |-> 0, readOk |-> TRUE]

\* Variant: a failed pool read is answered with a default price.
getOraclePriceDefaultOnFailure(tick, readOk) ==
  IF readOk
    THEN [op |-> "getOraclePrice", ok |-> TRUE, value |-> PoolPrice(tick),
          tick |-> tick, reads |-> 1, readOk |-> readOk]
    ELSE [op |-> "getOraclePrice", ok |-> TRUE, value |-> 1500,
          tick |-> 0, reads |-> 1, readOk |-> readOk]

\* OracleService.getOraclePrice: one slot0 read through fetchUniswapPrice;
\* its error is logged and thrown again.
getOraclePrice(tick, readOk) ==
  IF readOk
    THEN [op |-> "getOraclePrice", ok |-> TRUE, value |-> PoolPrice(tick),
          tick |-> tick, reads |-> 1, readOk |-> readOk]
    ELSE [op |-> "getOraclePrice", ok |-> FALSE, value |-> 0,
          tick |-> 0, reads |-> 1, readOk |-> readOk]

\* Variant: data tracking is started before the oracle service is
\* initialized.
initializeOrderTrackingFirst == <<"startTracking", "oracleInitialize", "init">>

\* CustomPoolStrategy.initialize: the oracle service is initialized, then
\* data tracking is initialized and started, then initializeStrategy runs.
initializeOrder == <<"oracleInitialize", "startTracking", "init">>

NextStep(step) ==
  initializeOrder[(CHOOSE i \in 1..Len(initializeOrder) : initializeOrder[i] = step) + 1]

\* ethers.constants.MaxUint256, the amount approveToken approves.
MaxUint256 == 1000

\* The tokens a swap can sell and the amounts it is called with.
SwapTokens == {"native", "token0", "token1"}
SwapAmounts == {1, 2}
RouterAllowances == {0, 1, 3, MaxUint256}

\* A swap call that has not begun.
NoSwapCall ==
  [fromToken |-> "native", amount |-> 0, cachedUnlimited |-> FALSE,
   checked |-> FALSE, readOk |-> FALSE, allowanceRead |-> 0,
   approvalConfirmed |-> FALSE, txSubmitted |-> FALSE, allowanceAtSubmit |-> 0,
   failed |-> FALSE]

\* SwapService after construction: an empty allowance cache (an absent
\* entry and an entry of 0 are told apart by no caller).
NoSwapService ==
  [allowance |-> [token0 |-> 0, token1 |-> 0],
   allowanceCache |-> [token0 |-> 0, token1 |-> 0],
   call |-> NoSwapCall]

\* SwapService.isNativeETH.
isNativeETH(token) == token = "native"

\* Variant: a second approval that fails is logged and the swap goes on.
afterApprovalRetryIgnored(ok) == "submit"

\* ensureAllowance: the approval attempted in its catch block rejects the
\* whole swap when it fails too.
afterApprovalRetry(ok) == IF ok THEN "submit" ELSE "throw"

\* Price points the tracking service collects in a run of the model.
MaxPoints == 3

\* The bufferSize option the tracking service is constructed with.
maxBufferSize == 2

\* The data tracking service after construction.  collectTimers and
\* flushTimers count the interval timers that are alive, whether or not
\* the service still holds their handles; flushes are the calls of
\* flushPriceDataBuffer waiting for a write; written counts how often each
\* point was stored; stopCalled tells that stopTracking was called after
\* the last startTracking that began tracking; lastFailed is the copy of
\* the buffer the last flush that failed was writing.
NoTracking ==
  [isTracking |-> FALSE,
   trackingInterval |-> FALSE,
   bufferFlushInterval |-> FALSE,
   collectTimers |-> 0,
   flushTimers |-> 0,
   starting |-> "none",
   priceDataBuffer |-> <<>>,
   lastSavedPrice |-> FALSE,
   nextPoint |-> 1,
   flushes |-> {},
   written |-> [p \in 1..MaxPoints |-> 0],
   stopCalled |-> FALSE,
   lastFailed |-> <<>>]

\* initializeStrategy before it has read the positions of the wallet.
NoStartup == [found |-> <<>>, stray |-> <<>>]

NoTickMath ==
  [tick |-> 0, tickSpacing |-> 1, roundUp |-> FALSE, aligned |-> 0, realigned |-> 0,
   price |-> 0, tickBack |-> 0, priceBack |-> 0]

NoSwap == [fromToken |-> "none", toToken |-> "none", amount |-> 0]

NoSeparation ==
  [tokenId |-> 0, principal0 |-> 0, principal1 |-> 0,
   received0 |-> 0, received1 |-> 0, fees0 |-> 0, fees1 |-> 0]

VARIABLES
  pc,                 \* position of the single control flow
  ctx,                \* caller of the current cycle: "init" or "strategy"
  pool,               \* current tick of the pool
  wallet,             \* token balances the wallet really holds
  chain,              \* live positions of the position manager, by token id
  nextTokenId,        \* next token id the position manager assigns
  inRangePositions,   \* the ledger: upper and lower slot
  closeBalances,      \* tracked undeployed balances
  stats,              \* cumulative statistics
  lastRebalancePrice,
  lastRebalanceSqrtPriceX96,
  frame,              \* locals of rebalanceAndOpenPositions across its awaits
  calls,              \* external calls issued since the current handler began
  lastError,          \* error that ended the last handler, "none" if none
  lastSeparation,     \* last argument/result of separatePrincipalAndFees
  inFlight,           \* invocations of strategy() that have not settled
  recordFailed,       \* a record* call of the step just taken failed at the database
  config,             \* strategy configuration and cached tick spacing
  mints,              \* mint requests issued since the current handler began
  lastSwap,           \* last swap requested since the current handler began
  tickMath,           \* argument and results of the tick functions applied on their own
  oracle,             \* the oracle service: its tick spacing, reads before it was set, last result
  swapService,        \* the swap service: router allowances, allowance cache, the swap call in progress
  startup,            \* the positions getUserPositions found at startup and those handleStrayPositions has still to close
  tracking            \* the data tracking service: flags, timers, price buffer, flushes in flight and what the database was handed

vars ==
  <<pc, ctx, pool, wallet, chain, nextTokenId, inRangePositions,
    closeBalances, stats, lastRebalancePrice, lastRebalanceSqrtPriceX96,
    frame, calls, lastError, lastSeparation,
    inFlight,
    recordFailed,
    config,
    mints,
    lastSwap,
    tickMath,
    oracle,
    swapService,
    startup,
    tracking>>

envVars == <<pool, wallet, chain, nextTokenId>>
baselineVars == <<lastRebalancePrice, lastRebalanceSqrtPriceX96>>

\* A consumer reads a price from the oracle service; it is remembered
\* whether any read came before the service was initialized.
OracleRead ==
  oracle' = [oracle EXCEPT !.readUninitialized = @ \/ oracle.tickSpacing = NoSpacing]

Call(op, tokenId, ok, amount0, amount1) ==
  [op |-> op, tokenId |-> tokenId, ok |-> ok,
   amount0 |-> amount0, amount1 |-> amount1]

Init ==
  /\ pc = initializeOrder[1]
  /\ ctx = "init"
  /\ pool \in InitialTicks
  /\ wallet \in InitialWallets
  /\ chain = <<>>
  /\ nextTokenId = 1
  /\ inRangePositions = [upper |-> NoPosition, lower |-> NoPosition]
  /\ closeBalances = [token0 |-> 0, token1 |-> 0]
  /\ stats = [totalFeesCollectedToken0 |-> 0,
              totalFeesCollectedToken1 |-> 0,
              totalRebalanceCount |-> 0]
  /\ lastRebalancePrice = 0
  /\ lastRebalanceSqrtPriceX96 = 0
  /\ frame = NoFrame
  /\ calls = <<>>
  /\ lastError = "none"
  /\ lastSeparation = NoSeparation
  /\ inFlight = 0
  /\ recordFailed = FALSE
  /\ config \in Configs
  /\ mints = <<>>
  /\ lastSwap = NoSwap
  /\ tickMath = NoTickMath
  /\ oracle = NoOracle
  /\ swapService = NoSwapService
  /\ startup = NoStartup
  /\ tracking = NoTracking

\* The pool price moves between two iterations of the monitoring loop.
PriceMove ==
  /\ pc = "idle"
  /\ \E tick \in PoolTicks \ {pool} : pool' = tick
  /\ UNCHANGED <<pc, ctx, wallet, chain, nextTokenId, inRangePositions,
                 closeBalances, stats, lastRebalancePrice,
                 lastRebalanceSqrtPriceX96, frame, calls, lastError,
                 lastSeparation>>
  /\ UNCHANGED inFlight
  /\ recordFailed' = FALSE
  /\ UNCHANGED config
  /\ UNCHANGED mints
  /\ UNCHANGED lastSwap
  /\ UNCHANGED tickMath
  /\ UNCHANGED oracle
  /\ UNCHANGED swapService
  /\ UNCHANGED startup
  /\ UNCHANGED tracking

\* Variant: an error of an iteration escapes the monitoring loop as well.
ThrowExits(kind) ==
  /\ lastError' = kind
  /\ pc' = "exited"

\* An error leaves the current cycle: initialize rejects and main exits the
\* process; strategy catches and logs, and the monitoring loop goes on.
Throw(kind) ==
  /\ lastError' = kind
  /\ pc' = IF ctx = "init" THEN "exited" ELSE "idle"

\* Continue at the next step, or leave the cycle with the error.
Goto(next, kind) ==
  IF next = "throw"
    THEN Throw(kind)
    ELSE pc' = next /\ lastError' = lastError

\* The promise of strategy() settles when its cycle is back at the loop.
Settle ==
  inFlight' = IF ctx = "strategy" /\ pc' = "idle"
                THEN inFlight - 1
                ELSE inFlight

\* CustomPoolStrategy.initialize awaits OracleService.initialize; when it
\* rejects, initialize rejects.
OracleInitialize ==
  /\ pc = "oracleInitialize"
  /\ \E ok \in BOOLEAN :
       /\ oracle' = oracleInitialize(oracle, ok, config.tickSpacing)
       /\ Goto(IF ok THEN NextStep(pc) ELSE "throw", "oracleInitialize")
  /\ recordFailed' = FALSE
  /\ UNCHANGED <<ctx, envVars, inRangePositions, closeBalances, stats,
                 baselineVars, frame, calls, lastSeparation, inFlight,
                 config, mints, lastSwap, tickMath>>
  /\ UNCHANGED swapService
  /\ UNCHANGED startup
  /\ UNCHANGED tracking

\* DataTrackingService.initialize connects to the database and rejects
\* when that fails; startTracking collects once right away, reading the
\* oracle price, and swallows the error of that collection.
StartTracking ==
  /\ pc = "startTracking"
  /\ \E dbOk \in BOOLEAN :
       IF dbOk
         THEN OracleRead /\ Goto(NextStep(pc), "startTracking")
         ELSE UNCHANGED oracle /\ Goto("throw", "startTracking")
  /\ recordFailed' = FALSE
  /\ UNCHANGED <<ctx, envVars, inRangePositions, closeBalances, stats,
                 baselineVars, frame, calls, lastSeparation, inFlight,
                 config, mints, lastSwap, tickMath>>
  /\ UNCHANGED swapService
  /\ UNCHANGED startup
  /\ UNCHANGED tracking

\* --------------------------------------------------- liquidity manager

\* Amounts a position pays out when all its liquidity is withdrawn at the
\* given pool tick: above its range it holds token1 only, below it token0
\* only, inside it what was deposited.
WithdrawAmounts(position, tick) ==
  IF tick >= position.tickUpper
    THEN [amount0 |-> 0,
          amount1 |-> position.deposit1 + position.deposit0 * PoolPrice(tick)]
  ELSE IF tick <= position.tickLower
    THEN [amount0 |-> position.deposit0 + position.deposit1 \div PoolPrice(tick),
          amount1 |-> 0]
  ELSE [amount0 |-> position.deposit0, amount1 |-> position.deposit1]

RemoveToken(ch, tokenId) == [id \in DOMAIN ch \ {tokenId} |-> ch[id]]

\* LiquidityManager.decreaseLiquidity on a position of the position manager:
\* the withdrawn principal and the accrued fees are credited to the tokens
\* owed; the call returns the principal of the DecreaseLiquidity event.  A
\* position without liquidity is left alone and reported as (0, 0).
decreaseLiquidity(position, tick, fee) ==
  IF position.liquidity = 0
    THEN [amount0 |-> 0, amount1 |-> 0, position |-> position]
    ELSE LET w == WithdrawAmounts(position, tick)
         IN [amount0 |-> w.amount0, amount1 |-> w.amount1,
             position |-> [position EXCEPT !.liquidity = 0,
                                           !.owed0 = @ + w.amount0 + fee,
                                           !.owed1 = @ + w.amount1 + fee]]

\* LiquidityManager.collectFees: collect transfers all tokens owed and the
\* Collect event reports them.
collectFees(position) ==
  [amount0 |-> position.owed0, amount1 |-> position.owed1,
   position |-> [position EXCEPT !.owed0 = 0, !.owed1 = 0]]

\* LiquidityManager.closePosition: getPositionInfo, decreaseLiquidity,
\* collectFees, burnPosition; any of them may throw.  The result is every
\* outcome the call can have on the given chain and wallet; the position
\* has accrued no fee or MaxFee of each token.
closePosition(ch, w, tokenId, tick) ==
  LET failed(ch2, w2) ==
        [ok |-> FALSE, amount0 |-> 0, amount1 |-> 0, chain |-> ch2, wallet |-> w2]
  IN IF tokenId \notin DOMAIN ch
       THEN {failed(ch, w)}
       ELSE
         { LET dec == decreaseLiquidity(ch[tokenId], tick, fee)
               fees == collectFees(dec.position)
               paid == [token0 |-> w.token0 + fees.amount0,
                        token1 |-> w.token1 + fees.amount1]
           IN CASE stage = "reverted" -> failed(ch, w)
                [] stage = "collectFailed" ->
                     failed([ch EXCEPT ![tokenId] = dec.position], w)
                [] stage = "burnFailed" ->
                     failed([ch EXCEPT ![tokenId] = fees.position], paid)
                [] stage = "closed" ->
                     [ok |-> TRUE,
                      amount0 |-> dec.amount0 + fees.amount0,
                      amount1 |-> dec.amount1 + fees.amount1,
                      chain |-> RemoveToken(ch, tokenId),
                      wallet |-> paid]
           : stage \in {"reverted", "collectFailed", "burnFailed", "closed"},
             fee \in {0, MaxFee} }

\* LiquidityManager.mintPosition, the parameters passed to the mint of the
\* position manager: a minimum of zero is replaced by 98% of the desired
\* amount of that token.
mintParams(amount0Desired, amount1Desired, amount0MinArg, amount1MinArg) ==
  [amount0Desired |-> amount0Desired,
   amount1Desired |-> amount1Desired,
   amount0Min |-> IF amount0MinArg = 0
                    THEN (amount0Desired * SlippageFactor) \div 100
                    ELSE amount0MinArg,
   amount1Min |-> IF amount1MinArg = 0
                    THEN (amount1Desired * SlippageFactor) \div 100
                    ELSE amount1MinArg]

\* A call of mintPosition as the strategy issues it, with the parameters
\* the position manager is given for it.
MintRequest(op, amount0Desired, amount1Desired, amount0MinArg, amount1MinArg) ==
  [op |-> op,
   amount0Desired |-> amount0Desired, amount1Desired |-> amount1Desired,
   amount0Min |-> amount0MinArg, amount1Min |-> amount1MinArg,
   params |-> mintParams(amount0Desired, amount1Desired,
                         amount0MinArg, amount1MinArg)]

\* LiquidityManager.mintPosition: tick sanity check, minimum amounts (a zero
\* minimum is replaced by 98% of the desired amount), the mint transaction
\* and the parsing of its receipt.  The position manager takes the minimum
\* or the desired amount of both tokens, never more than the wallet
\* holds, and reverts on a mint without liquidity.  "minted" tells whether
\* the transaction confirmed; the call may still throw after it.  Once the
\* token ids of the model are used up every mint fails.
mintPosition(w, tokenId, tickLower, tickUpper, amount0Desired, amount1Desired, amount0MinArg, amount1MinArg) ==
  LET notMinted == [ok |-> FALSE, minted |-> FALSE,
                    amount0Used |-> 0, amount1Used |-> 0]
      params == mintParams(amount0Desired, amount1Desired,
                           amount0MinArg, amount1MinArg)
      amount0Min == params.amount0Min
      amount1Min == params.amount1Min
      taken == { u \in { [amount0Used |-> amount0Min,
                           amount1Used |-> amount1Min],
                          [amount0Used |-> amount0Desired,
                           amount1Used |-> amount1Desired] } :
                   /\ u.amount0Used + u.amount1Used > 0
                   /\ u.amount0Used <= w.token0
                   /\ u.amount1Used <= w.token1 }
  IN IF tickLower >= tickUpper \/ tokenId > MaxTokenId
       THEN {notMinted}
       ELSE {notMinted}
            \cup { [ok |-> okFlag, minted |-> TRUE,
                    amount0Used |-> u.amount0Used,
                    amount1Used |-> u.amount1Used]
                   : okFlag \in BOOLEAN, u \in taken }

\* The position the position manager holds after a mint.
ChainPosition(tickLower, tickUpper, amount0, amount1) ==
  [tickLower |-> tickLower, tickUpper |-> tickUpper, liquidity |-> 1,
   deposit0 |-> amount0, deposit1 |-> amount1, owed0 |-> 0, owed1 |-> 0]

\* LiquidityManager.getPositionInfo: the ticks of the position, with the
\* token amounts set to zero until the caller fills them in.
getPositionInfo(ch, tokenId) ==
  [tokenId |-> tokenId,
   tickLower |-> ch[tokenId].tickLower,
   tickUpper |-> ch[tokenId].tickUpper,
   token0Amount |-> 0, token1Amount |-> 0]

\* ------------------------------------------------------------ swap service

\* SwapService.swap: sells the amount at the pool price, or throws leaving
\* the wallet as it was.  It cannot sell more than the wallet holds.
swap(w, fromToken, amount, tick) ==
  LET failed == [ok |-> FALSE, amountOut |-> 0, wallet |-> w]
      quote == IF fromToken = "token0"
                 THEN amount * PoolPrice(tick)
                 ELSE amount \div PoolPrice(tick)
  IN IF w[fromToken] < amount
       THEN {failed}
       ELSE {failed,
             [ok |-> TRUE,
              amountOut |-> quote,
              wallet |-> IF fromToken = "token0"
                           THEN [token0 |-> w.token0 - amount,
                                 token1 |-> w.token1 + quote]
                           ELSE [token0 |-> w.token0 + quote,
                                 token1 |-> w.token1 - amount]]}

\* --------------------------------------------------------------- strategy

\* Variant: a record* call rejects when the database operation fails.
recordEventThrowOnCritical(dbOk) == dbOk

\* DataTrackingService.recordPositionCreated, recordPositionCreationFailed,
\* recordPositionClosed and recordFeesCollected as the strategy calls them:
\* a database error is caught, logged and counted, and the call returns
\* normally.  The value tells whether the call returns to its caller.
recordEvent(dbOk) == TRUE

\* -------------------------------------------------------------- startup

\* Positions a wallet may hold when the strategy is started, and the
\* position managers the startup of the strategy is checked on: one or
\* two of these positions in any order of their token ids, or all three.
ExistingPositions ==
  { [tickLower |-> 77160, tickUpper |-> 78240, liquidity |-> 1,
     deposit0 |-> 0, deposit1 |-> 98, owed0 |-> 0, owed1 |-> 0],
    [tickLower |-> 78240, tickUpper |-> 79260, liquidity |-> 1,
     deposit0 |-> 1, deposit1 |-> 0, owed0 |-> 0, owed1 |-> 0],
    [tickLower |-> 76020, tickUpper |-> 77100, liquidity |-> 1,
     deposit0 |-> 0, deposit1 |-> 49, owed0 |-> 0, owed1 |-> 0] }
StartupChains ==
  { <<a>> : a \in ExistingPositions }
  \cup { ch \in [1..2 -> ExistingPositions] : ch[1] # ch[2] }
  \cup { ch \in [1..3 -> ExistingPositions] :
           ch[1].tickLower > ch[2].tickLower /\ ch[2].tickLower > ch[3].tickLower }

\* Variant: the two positions are adopted in the order they are listed.
sortByTickLowerUnsorted(positions) == positions

\* initializeStrategy, the sorted copy of the two positions found: the
\* comparator is the difference of the lower ticks.
sortByTickLower(positions) ==
  IF positions[1].tickLower - positions[2].tickLower <= 0
    THEN positions
    ELSE <<positions[2], positions[1]>>

\* LiquidityManager.getUserPositions: the positions of the wallet at the
\* position manager, in the order of their token ids.
RECURSIVE getUserPositionsFrom(_, _)
getUserPositionsFrom(ch, tokenId) ==
  IF tokenId > MaxTokenId + 1
    THEN <<>>
    ELSE (IF tokenId \in DOMAIN ch
            THEN <<getPositionInfo(ch, tokenId)>>
            ELSE <<>>) \o getUserPositionsFrom(ch, tokenId + 1)
getUserPositions(ch) == getUserPositionsFrom(ch, 1)

\* Variant: the first failing close ends handleStrayPositions with the
\* error.
afterStrayCloseAborts(ok, rest) ==
  IF ~ok THEN "throw" ELSE IF rest = <<>> THEN "balance" ELSE "stray"

\* handleStrayPositions after the close of one position: the catch inside
\* the loop logs the failure and the loop goes on with the next position;
\* after the last one initializeStrategy goes on to the balancing.
afterStrayClose(ok, rest) == IF rest = <<>> THEN "balance" ELSE "stray"

\* CustomPoolStrategy.initialize from the read of the wallet balances, and
\* initializeStrategy: without positions it goes on to balance and open,
\* exactly two positions are adopted, any other number is handed to
\* handleStrayPositions.
Initialize ==
  /\ pc = "init"
  /\ closeBalances' = [token0 |-> wallet.token0, token1 |-> wallet.token1]
  /\ LET positions == getUserPositions(chain)
     IN IF Len(positions) > 0
          THEN IF Len(positions) = 2
                 THEN /\ inRangePositions' =
                           [lower |-> sortByTickLower(positions)[1],
                            upper |-> sortByTickLower(positions)[2]]
                      /\ startup' = [found |-> positions, stray |-> <<>>]
                      /\ pc' = "idle"
                 ELSE /\ startup' = [found |-> positions, stray |-> positions]
                      /\ pc' = "stray"
                      /\ UNCHANGED inRangePositions
          ELSE /\ startup' = [found |-> positions, stray |-> <<>>]
               /\ pc' = "balance"
               /\ UNCHANGED inRangePositions
  /\ UNCHANGED <<ctx, envVars, stats, baselineVars,
                 frame, calls, lastError, lastSeparation>>
  /\ UNCHANGED inFlight
  /\ recordFailed' = FALSE
  /\ UNCHANGED config
  /\ UNCHANGED mints
  /\ UNCHANGED lastSwap
  /\ UNCHANGED tickMath
  /\ UNCHANGED oracle
  /\ UNCHANGED swapService
  /\ UNCHANGED tracking

\* handleStrayPositions, one iteration of its loop: the position is
\* recorded as detected and closed; the amounts of a close that succeeded
\* are added to the tracked balances after recordStrayPositionClosed; a
\* close that failed is logged and recorded.
HandleStray ==
  /\ pc = "stray"
  /\ startup.stray # <<>>
  /\ \E result \in closePosition(chain, wallet,
                                 Head(startup.stray).tokenId, pool) :
      \E dbOk \in BOOLEAN :
       LET ok == result.ok /\ recordEvent(dbOk)
           rest == Tail(startup.stray)
       IN /\ chain' = result.chain
          /\ wallet' = result.wallet
          /\ recordFailed' = ~dbOk
          /\ calls' = Append(calls,
                        Call("closeStray", Head(startup.stray).tokenId,
                             result.ok, result.amount0, result.amount1))
          /\ closeBalances' =
               IF ok THEN [token0 |-> closeBalances.token0 + result.amount0,
                           token1 |-> closeBalances.token1 + result.amount1]
                     ELSE closeBalances
          /\ startup' = [startup EXCEPT !.stray = rest]
          /\ Goto(afterStrayClose(ok, rest), "close")
  /\ UNCHANGED <<ctx, pool, nextTokenId, inRangePositions, stats,
                 baselineVars, frame, lastSeparation>>
  /\ UNCHANGED inFlight
  /\ UNCHANGED config
  /\ UNCHANGED mints
  /\ UNCHANGED lastSwap
  /\ UNCHANGED tickMath
  /\ UNCHANGED oracle
  /\ UNCHANGED swapService
  /\ UNCHANGED tracking

\* Variant: the catch around the swap logs and lets the cycle go on.
afterSwapSwallows(ok) == "open_upper"

\* The catch around the swap of ensureBalanced5050 rethrows, so the opening
\* of the positions is only reached when the swap block completed.
afterSwap(ok) == IF ok THEN "open_upper" ELSE "throw"

\* Variant: the token with the smaller value is sold.
swapFromTokenSmaller(token0Value, token1Value) ==
  IF token0Value > token1Value THEN "token1" ELSE "token0"

\* The token ensureBalanced5050 sells when the values differ.
swapFromToken(token0Value, token1Value) ==
  IF token0Value > token1Value THEN "token0" ELSE "token1"

\* CustomPoolStrategy.ensureBalanced5050.
EnsureBalanced5050 ==
  /\ pc = "balance"
  /\ \/ \* the oracle read throws
        /\ Throw("oracle")
        /\ UNCHANGED <<ctx, envVars, inRangePositions, closeBalances, stats,
                       baselineVars, frame, calls, lastSeparation, lastSwap>>
     \/ LET currentPrice == PoolPrice(pool)
            token0Value == closeBalances.token0 * currentPrice
            token1Value == closeBalances.token1
            totalValue == token0Value + token1Value
            fromToken == swapFromToken(token0Value, token1Value)
            toToken == IF fromToken = "token0" THEN "token1" ELSE "token0"
            \* ((token0Value - targetValue) / currentPrice).toFixed(decimals)
            swapAmountToken0 ==
              (token0Value - token1Value + currentPrice) \div (2 * currentPrice)
            \* (token1Value - targetValue).toFixed(decimals)
            swapAmountToken1 == (token1Value - token0Value + 1) \div 2
            amount == IF fromToken = "token0" THEN swapAmountToken0
                                              ELSE swapAmountToken1
        IN IF totalValue = 0 \/ token0Value = token1Value
             THEN /\ pc' = "open_upper"
                  /\ UNCHANGED <<ctx, envVars, inRangePositions, closeBalances,
                                 stats, baselineVars, frame, calls, lastError,
                                 lastSeparation, lastSwap>>
             ELSE \E result \in swap(wallet, fromToken, amount, pool),
                     balanceRead \in BOOLEAN :
                    /\ wallet' = result.wallet
                    /\ calls' = Append(calls,
                                  Call("swap", 0, result.ok, amount, result.amountOut))
                    /\ lastSwap' = [fromToken |-> fromToken, toToken |-> toToken,
                                    amount |-> amount]
                    /\ closeBalances' = IF result.ok /\ balanceRead
                                           THEN result.wallet
                                           ELSE closeBalances
                    /\ Goto(afterSwap(result.ok /\ balanceRead), "swap")
                    /\ UNCHANGED <<ctx, pool, chain, nextTokenId,
                                   inRangePositions, stats, baselineVars,
                                   frame, lastSeparation>>
  /\ Settle
  /\ recordFailed' = FALSE
  /\ UNCHANGED config
  /\ UNCHANGED mints
  /\ UNCHANGED tickMath
  /\ OracleRead
  /\ UNCHANGED swapService
  /\ UNCHANGED startup
  /\ UNCHANGED tracking

\* Variant: the catch of the upper try block logs and falls through.
afterUpperMintFallsThrough(ok) == "open_lower"

\* The catch of the upper try block rethrows, so the lower mint is only
\* reached when the upper block completed.
afterUpperMint(ok) == IF ok THEN "open_lower" ELSE "throw"

\* Variant: the lower mint is offered the whole token1 balance again.
token1LeftAfterUpperMintWhole(totalToken1, amount1Used) == totalToken1

\* "token1 left after minting upper position".
token1LeftAfterUpperMint(totalToken1, amount1Used) == totalToken1 - amount1Used

\* Variant: the amounts to deploy are the balances of the wallet.
totalToDeployFromWallet(tracked, held) == held

\* rebalanceAndOpenPositions: the amounts to deploy are the tracked
\* balances, not the balances the wallet holds.
totalToDeploy(tracked, held) == tracked

\* rebalanceAndOpenPositions up to the end of the upper try block: oracle
\* read, range plan, upper mint, getPositionInfo, ledger and balances.
MintUpper ==
  /\ pc = "open_upper"
  /\ \/ \* the oracle read throws
        /\ Throw("oracle")
        /\ recordFailed' = FALSE
        /\ mints' = mints
        /\ UNCHANGED <<ctx, envVars, inRangePositions, closeBalances, stats,
                       baselineVars, frame, calls, lastSeparation>>
     \/ LET currentPrice == PoolPrice(pool)
            plan == PlanRanges(currentPrice, config.widthPercent,
                               config.tickSpacing)
            totalToken0 == totalToDeploy(closeBalances, wallet).token0
            totalToken1 == totalToDeploy(closeBalances, wallet).token1
        IN \E result \in mintPosition(wallet, nextTokenId,
                           plan.upperPositionTicks.lower,
                           plan.upperPositionTicks.upper,
                           totalToken0, totalToken1,
                           (totalToken0 * 98) \div 100, 0),
              dbOk \in BOOLEAN :
             LET tokenId == nextTokenId
                 \* recordPositionCreated is awaited inside the try block,
                 \* before the ledger and the balances are updated
                 ok == result.ok /\ recordEvent(dbOk)
                 minted == (tokenId :> ChainPosition(
                              plan.upperPositionTicks.lower,
                              plan.upperPositionTicks.upper,
                              result.amount0Used, result.amount1Used)) @@ chain
                 upperPositionInfo ==
                   [getPositionInfo(minted, tokenId) EXCEPT
                      !.token0Amount = result.amount0Used,
                      !.token1Amount = result.amount1Used]
             IN /\ calls' = Append(calls, Call("mintUpper", tokenId, result.ok,
                                     result.amount0Used, result.amount1Used))
                /\ mints' = Append(mints,
                              MintRequest("mintUpper", totalToken0, totalToken1,
                                          (totalToken0 * 98) \div 100, 0))
                /\ frame' = [lowerPositionTicks |-> plan.lowerPositionTicks,
                             upperPositionTicks |-> plan.upperPositionTicks,
                             totalToken0 |-> totalToken0,
                             totalToken1 |-> totalToken1,
                             totalToken1Left |->
                               token1LeftAfterUpperMint(totalToken1,
                                                        result.amount1Used),
                             currentPrice |-> currentPrice]
                /\ IF result.minted
                     THEN /\ chain' = minted
                          /\ nextTokenId' = nextTokenId + 1
                          /\ wallet' = [token0 |-> wallet.token0 - result.amount0Used,
                                        token1 |-> wallet.token1 - result.amount1Used]
                     ELSE UNCHANGED <<chain, nextTokenId, wallet>>
                /\ recordFailed' = ~dbOk
                /\ IF ok
                     THEN /\ inRangePositions' =
                               [inRangePositions EXCEPT !.upper = upperPositionInfo]
                          /\ closeBalances' =
                               [token0 |-> closeBalances.token0 - result.amount0Used,
                                token1 |-> closeBalances.token1 - result.amount1Used]
                     ELSE UNCHANGED <<inRangePositions, closeBalances>>
                /\ Goto(afterUpperMint(ok), "upperMint")
                /\ UNCHANGED <<ctx, pool, stats, baselineVars, lastSeparation>>
  /\ Settle
  /\ UNCHANGED config
  /\ UNCHANGED lastSwap
  /\ UNCHANGED tickMath
  /\ OracleRead
  /\ UNCHANGED swapService
  /\ UNCHANGED startup
  /\ UNCHANGED tracking

\* The lower try block of rebalanceAndOpenPositions; a failure goes to the
\* catch block that closes the upper position.
MintLower ==
  /\ pc = "open_lower"
  /\ \E result \in mintPosition(wallet, nextTokenId,
                     frame.lowerPositionTicks.lower,
                     frame.lowerPositionTicks.upper,
                     0, frame.totalToken1Left,
                     0, (frame.totalToken1Left * 98) \div 100) :
     \E dbOk \in IF result.ok THEN BOOLEAN ELSE {TRUE} :
       LET tokenId == nextTokenId
           \* recordPositionCreated is awaited inside the try block
           ok == result.ok /\ recordEvent(dbOk)
           minted == (tokenId :> ChainPosition(
                        frame.lowerPositionTicks.lower,
                        frame.lowerPositionTicks.upper,
                        result.amount0Used, result.amount1Used)) @@ chain
           lowerPositionInfo ==
             [getPositionInfo(minted, tokenId) EXCEPT
                !.token0Amount = result.amount0Used,
                !.token1Amount = result.amount1Used]
       IN /\ calls' = Append(calls, Call("mintLower", tokenId, result.ok,
                               result.amount0Used, result.amount1Used))
          /\ mints' = Append(mints,
                        MintRequest("mintLower", 0, frame.totalToken1Left,
                                    0, (frame.totalToken1Left * 98) \div 100))
          /\ IF result.minted
               THEN /\ chain' = minted
                    /\ nextTokenId' = nextTokenId + 1
                    /\ wallet' = [token0 |-> wallet.token0 - result.amount0Used,
                                  token1 |-> wallet.token1 - result.amount1Used]
               ELSE UNCHANGED <<chain, nextTokenId, wallet>>
          /\ recordFailed' = ~dbOk
          /\ IF ok
               THEN /\ inRangePositions' =
                         [inRangePositions EXCEPT !.lower = lowerPositionInfo]
                    /\ closeBalances' =
                         [token0 |-> closeBalances.token0 - result.amount0Used,
                          token1 |-> closeBalances.token1 - result.amount1Used]
                    /\ lastRebalancePrice' = frame.currentPrice
                    /\ pc' = IF ctx = "init" THEN "idle" ELSE "baseline"
               ELSE /\ pc' = "unwind"
                    /\ UNCHANGED <<inRangePositions, closeBalances,
                                   lastRebalancePrice>>
          /\ UNCHANGED <<ctx, pool, stats, lastRebalanceSqrtPriceX96, frame,
                         lastError, lastSeparation>>
  /\ Settle
  /\ UNCHANGED config
  /\ UNCHANGED lastSwap
  /\ UNCHANGED tickMath
  /\ UNCHANGED oracle
  /\ UNCHANGED swapService
  /\ UNCHANGED startup
  /\ UNCHANGED tracking

\* Variant: the position reference is kept after the close.
clearUpperPositionKept(positions) == positions

\* "Clear the position reference" after the close of the unwind.
clearUpperPosition(positions) == [positions EXCEPT !.upper = NoPosition]

\* The catch block of the lower try block: close the upper position if the
\* ledger holds one, keep it when the close throws, then rethrow.
UnwindUpper ==
  /\ pc = "unwind"
  /\ IF ~IsNull(inRangePositions.upper)
       THEN \E closeResult \in closePosition(chain, wallet,
                                 inRangePositions.upper.tokenId, pool) :
              /\ chain' = closeResult.chain
              /\ wallet' = closeResult.wallet
              /\ calls' = Append(calls,
                            Call("closeUnwind", inRangePositions.upper.tokenId,
                                 closeResult.ok,
                                 closeResult.amount0, closeResult.amount1))
              /\ IF closeResult.ok
                   THEN /\ closeBalances' =
                             [token0 |-> closeBalances.token0 + closeResult.amount0,
                              token1 |-> closeBalances.token1 + closeResult.amount1]
                        /\ inRangePositions' =
                             clearUpperPosition(inRangePositions)
                   ELSE UNCHANGED <<closeBalances, inRangePositions>>
       ELSE UNCHANGED <<chain, wallet, calls, closeBalances, inRangePositions>>
  /\ \E dbOk \in BOOLEAN : recordFailed' = ~dbOk
  /\ Throw("lowerMint")
  /\ UNCHANGED <<ctx, pool, nextTokenId, stats, baselineVars, frame,
                 lastSeparation>>
  /\ Settle
  /\ UNCHANGED config
  /\ UNCHANGED mints
  /\ UNCHANGED lastSwap
  /\ UNCHANGED tickMath
  /\ UNCHANGED oracle
  /\ UNCHANGED swapService
  /\ UNCHANGED startup
  /\ UNCHANGED tracking

\* CustomPoolStrategy.updateRebalanceBaseline; its errors are swallowed.
UpdateRebalanceBaseline ==
  /\ pc = "baseline"
  /\ \/ /\ lastRebalanceSqrtPriceX96' = pool
        /\ lastRebalancePrice' = PoolPrice(pool)
     \/ UNCHANGED baselineVars
  /\ pc' = "idle"
  /\ UNCHANGED <<ctx, envVars, inRangePositions, closeBalances, stats,
                 frame, calls, lastError, lastSeparation>>
  /\ Settle
  /\ recordFailed' = FALSE
  /\ UNCHANGED config
  /\ UNCHANGED mints
  /\ UNCHANGED lastSwap
  /\ UNCHANGED tickMath
  /\ OracleRead
  /\ UNCHANGED swapService
  /\ UNCHANGED startup
  /\ UNCHANGED tracking

\* Variant: the comparisons with the thresholds are not strict.
isPriceBeyondTickThresholdInclusive(positions, currentTick) ==
  LET upperTickThreshold == positions.upper.tickUpper + 2 * TickSpacing
      lowerTickThreshold == positions.lower.tickLower - 2 * TickSpacing
  IN \/ ~IsNull(positions.lower) /\ currentTick <= lowerTickThreshold
     \/ ~IsNull(positions.upper) /\ currentTick >= upperTickThreshold

\* Variant: the thresholds lie one tick spacing outside the ranges.
isPriceBeyondTickThresholdOneSpacing(positions, currentTick) ==
  LET upperTickThreshold == positions.upper.tickUpper + TickSpacing
      lowerTickThreshold == positions.lower.tickLower - TickSpacing
  IN \/ ~IsNull(positions.lower) /\ currentTick < lowerTickThreshold
     \/ ~IsNull(positions.upper) /\ currentTick > upperTickThreshold

\* CustomPoolStrategy.isPriceBeyondTickThreshold.  The tick of an empty slot
\* is undefined, its threshold NaN, and a comparison with NaN is false.
isPriceBeyondTickThreshold(positions, currentTick) ==
  LET upperTickThreshold == positions.upper.tickUpper + 2 * TickSpacing
      lowerTickThreshold == positions.lower.tickLower - 2 * TickSpacing
      isAboveUpperThreshold ==
        ~IsNull(positions.lower) /\ currentTick < lowerTickThreshold
      isBelowLowerThreshold ==
        ~IsNull(positions.upper) /\ currentTick > upperTickThreshold
  IN isAboveUpperThreshold \/ isBelowLowerThreshold

\* Variant: fees are received minus principal without the floor at zero.
separatePrincipalAndFeesUnclamped(position, amount0Received, amount1Received) ==
  [principal |-> [amount0 |-> position.token0Amount,
                  amount1 |-> position.token1Amount],
   fees |-> [amount0 |-> amount0Received - position.token0Amount,
             amount1 |-> amount1Received - position.token1Amount]]

\* CustomPoolStrategy.separatePrincipalAndFees.
separatePrincipalAndFees(position, amount0Received, amount1Received) ==
  LET principal0 == position.token0Amount
      principal1 == position.token1Amount
      fees0 == IF amount0Received > principal0
                 THEN amount0Received - principal0 ELSE 0
      fees1 == IF amount1Received > principal1
                 THEN amount1Received - principal1 ELSE 0
  IN [principal |-> [amount0 |-> principal0, amount1 |-> principal1],
      fees |-> [amount0 |-> fees0, amount1 |-> fees1]]

Separation(position, result, separated) ==
  [tokenId |-> position.tokenId,
   principal0 |-> position.token0Amount, principal1 |-> position.token1Amount,
   received0 |-> result.amount0, received1 |-> result.amount1,
   fees0 |-> separated.fees.amount0, fees1 |-> separated.fees.amount1]

\* Variant: the loop calls strategy() without awaiting it, so a timer can
\* start the next check while the previous one is between two awaits.
monitoringLoopReadyUnawaited(pcNow) == pcNow \notin {"init", "exited"}

\* monitoringLoop awaits strategy() and then the sleep, so an iteration
\* begins only when no cycle is between two awaits.
monitoringLoopReady(pcNow) == pcNow = "idle"

\* One iteration of monitoringLoop up to the first close: strategy reads
\* the oracle and tests the thresholds.  An oracle error reaches the catch
\* of the loop, which waits and goes on.
StrategyCheck ==
  /\ monitoringLoopReady(pc)
  /\ ctx' = "strategy"
  /\ calls' = <<>>
  /\ frame' = NoFrame
  /\ \/ /\ lastError' = "oracle"
        /\ pc' = "idle"
     \/ /\ lastError' = "none"
        /\ pc' = IF ~isPriceBeyondTickThreshold(inRangePositions, pool)
                   THEN "idle"
                 ELSE IF IsNull(inRangePositions.lower)
                         \/ IsNull(inRangePositions.upper)
                   THEN "closed"
                 ELSE "close_lower"
  /\ UNCHANGED <<envVars, inRangePositions, closeBalances, stats,
                 baselineVars, lastSeparation>>
  /\ inFlight' = inFlight + 1 - (IF pc' = "idle" THEN 1 ELSE 0)
  /\ recordFailed' = FALSE
  /\ UNCHANGED config
  /\ mints' = <<>>
  /\ lastSwap' = NoSwap
  /\ UNCHANGED tickMath
  /\ OracleRead
  /\ UNCHANGED swapService
  /\ UNCHANGED startup
  /\ UNCHANGED tracking

\* Variant: a close that throws is logged and the next step still runs.
afterCloseContinues(ok, nextPc) == nextPc

\* A close that throws leaves the try block of strategy for its catch.
afterClose(ok, nextPc) == IF ok THEN nextPc ELSE "throw"

\* Variant: the totals are overwritten with the fees of the last close.
addFeesOverwriting(st, fees) ==
  [st EXCEPT !.totalFeesCollectedToken0 = fees.amount0,
             !.totalFeesCollectedToken1 = fees.amount1]

\* strategy: the fees of a closed position are added to the totals.
addFees(st, fees) ==
  [st EXCEPT !.totalFeesCollectedToken0 = @ + fees.amount0,
             !.totalFeesCollectedToken1 = @ + fees.amount1]

\* strategy: close of one slot's position, fee statistics and balances.
ClosePositionOf(slot, op, nextPc) ==
  \E result \in closePosition(chain, wallet,
                              inRangePositions[slot].tokenId, pool) :
   \E dbOk \in IF result.ok THEN BOOLEAN ELSE {TRUE} :
    LET separated == separatePrincipalAndFees(inRangePositions[slot],
                                              result.amount0, result.amount1)
        \* recordPositionClosed and recordFeesCollected are awaited before
        \* the balances are updated
        ok == result.ok /\ recordEvent(dbOk)
    IN /\ chain' = result.chain
       /\ recordFailed' = ~dbOk
       /\ wallet' = result.wallet
       /\ calls' = Append(calls,
                     Call(op, inRangePositions[slot].tokenId, result.ok,
                          result.amount0, result.amount1))
       /\ IF result.ok
            THEN /\ stats' = addFees(stats, separated.fees)
                 /\ lastSeparation' =
                      Separation(inRangePositions[slot], result, separated)
            ELSE UNCHANGED <<stats, lastSeparation>>
       /\ closeBalances' =
            IF ok THEN [token0 |-> closeBalances.token0 + result.amount0,
                        token1 |-> closeBalances.token1 + result.amount1]
                  ELSE closeBalances
       /\ Goto(afterClose(ok, nextPc), "close")
       /\ UNCHANGED <<ctx, pool, nextTokenId, inRangePositions,
                      baselineVars, frame>>

CloseLower ==
  /\ pc = "close_lower"
  /\ ClosePositionOf("lower", "closeLower", "close_upper")
  /\ Settle
  /\ UNCHANGED config
  /\ UNCHANGED mints
  /\ UNCHANGED lastSwap
  /\ UNCHANGED tickMath
  /\ UNCHANGED oracle
  /\ UNCHANGED swapService
  /\ UNCHANGED startup
  /\ UNCHANGED tracking

CloseUpper ==
  /\ pc = "close_upper"
  /\ ClosePositionOf("upper", "closeUpper", "closed")
  /\ Settle
  /\ UNCHANGED config
  /\ UNCHANGED mints
  /\ UNCHANGED lastSwap
  /\ UNCHANGED tickMath
  /\ UNCHANGED oracle
  /\ UNCHANGED swapService
  /\ UNCHANGED startup
  /\ UNCHANGED tracking

\* strategy after the closes: rebalance statistics, ledger reset and the
\* read of the latest price.
ResetPositions ==
  /\ pc = "closed"
  /\ stats' = [stats EXCEPT !.totalRebalanceCount = @ + 1]
  /\ inRangePositions' = [upper |-> NoPosition, lower |-> NoPosition]
  /\ \/ Throw("oracle")
     \/ /\ pc' = "balance"
        /\ lastError' = lastError
  /\ UNCHANGED <<ctx, envVars, closeBalances, baselineVars, frame, calls,
                 lastSeparation>>
  /\ Settle
  /\ recordFailed' = FALSE
  /\ UNCHANGED config
  /\ UNCHANGED mints
  /\ UNCHANGED lastSwap
  /\ UNCHANGED tickMath
  /\ OracleRead
  /\ UNCHANGED swapService
  /\ UNCHANGED startup
  /\ UNCHANGED tracking

Next ==
  \/ PriceMove
  \/ OracleInitialize
  \/ StartTracking
  \/ Initialize
  \/ EnsureBalanced5050
  \/ MintUpper
  \/ MintLower
  \/ UnwindUpper
  \/ UpdateRebalanceBaseline
  \/ StrategyCheck
  \/ CloseLower
  \/ CloseUpper
  \/ ResetPositions

Spec == Init /\ [][Next]_vars

\* The range planner on its own: the planning part of
\* rebalanceAndOpenPositions applied once to every input.
PlanInit ==
  /\ pc = "plan"
  /\ ctx = "init"
  /\ pool \in InitialTicks
  /\ wallet = [token0 |-> 0, token1 |-> 0]
  /\ chain = <<>>
  /\ nextTokenId = 1
  /\ inRangePositions = [upper |-> NoPosition, lower |-> NoPosition]
  /\ closeBalances = [token0 |-> 0, token1 |-> 0]
  /\ stats = [totalFeesCollectedToken0 |-> 0,
              totalFeesCollectedToken1 |-> 0,
              totalRebalanceCount |-> 0]
  /\ lastRebalancePrice = 0
  /\ lastRebalanceSqrtPriceX96 = 0
  /\ \E currentPrice \in PlanPrices :
       frame = [NoFrame EXCEPT !.currentPrice = currentPrice]
  /\ calls = <<>>
  /\ lastError = "none"
  /\ lastSeparation = NoSeparation
  /\ inFlight = 0
  /\ recordFailed = FALSE
  /\ mints = <<>>
  /\ lastSwap = NoSwap
  /\ tickMath = NoTickMath
  /\ \E w \in PlanWidths, tickSpacing \in PlanSpacings :
       /\ (frame.currentPrice * w) % 20 = 0
       /\ config = [widthPercent |-> w, tickSpacing |-> tickSpacing]
  /\ oracle = NoOracle
  /\ swapService = NoSwapService
  /\ startup = NoStartup
  /\ tracking = NoTracking

PlanStep ==
  /\ pc = "plan"
  /\ LET plan == PlanRanges(frame.currentPrice, config.widthPercent,
                            config.tickSpacing)
     IN frame' = [frame EXCEPT !.lowerPositionTicks = plan.lowerPositionTicks,
                               !.upperPositionTicks = plan.upperPositionTicks]
  /\ pc' = "planned"
  /\ UNCHANGED <<ctx, envVars, inRangePositions, closeBalances, stats,
                 baselineVars, calls, lastError, lastSeparation, inFlight,
                 recordFailed, config, mints, lastSwap, tickMath>>
  /\ UNCHANGED oracle
  /\ UNCHANGED swapService
  /\ UNCHANGED startup
  /\ UNCHANGED tracking

PlanNext == PlanStep

PlanSpec == PlanInit /\ [][PlanNext]_vars

\* The alignment on its own: alignTick applied to every input, and once
\* more to its own result.
AlignInit ==
  /\ pc = "align"
  /\ ctx = "init"
  /\ pool \in InitialTicks
  /\ wallet = [token0 |-> 0, token1 |-> 0]
  /\ chain = <<>>
  /\ nextTokenId = 1
  /\ inRangePositions = [upper |-> NoPosition, lower |-> NoPosition]
  /\ closeBalances = [token0 |-> 0, token1 |-> 0]
  /\ stats = [totalFeesCollectedToken0 |-> 0,
              totalFeesCollectedToken1 |-> 0,
              totalRebalanceCount |-> 0]
  /\ lastRebalancePrice = 0
  /\ lastRebalanceSqrtPriceX96 = 0
  /\ frame = NoFrame
  /\ calls = <<>>
  /\ lastError = "none"
  /\ lastSeparation = NoSeparation
  /\ inFlight = 0
  /\ recordFailed = FALSE
  /\ mints = <<>>
  /\ lastSwap = NoSwap
  /\ config \in Configs
  /\ \E tick \in AlignTicks, tickSpacing \in PlanSpacings, roundUp \in BOOLEAN :
       tickMath = [NoTickMath EXCEPT !.tick = tick,
                                     !.tickSpacing = tickSpacing,
                                     !.roundUp = roundUp]
  /\ oracle = NoOracle
  /\ swapService = NoSwapService
  /\ startup = NoStartup
  /\ tracking = NoTracking

AlignOnce ==
  /\ pc = "align"
  /\ tickMath' = [tickMath EXCEPT !.aligned =
                    alignTick(tickMath.tick, tickMath.tickSpacing,
                              tickMath.roundUp)]
  /\ pc' = "aligned"
  /\ UNCHANGED <<ctx, envVars, inRangePositions, closeBalances, stats,
                 baselineVars, frame, calls, lastError, lastSeparation,
                 inFlight, recordFailed, config, mints, lastSwap>>
  /\ UNCHANGED oracle
  /\ UNCHANGED swapService
  /\ UNCHANGED startup
  /\ UNCHANGED tracking

AlignAgain ==
  /\ pc = "aligned"
  /\ tickMath' = [tickMath EXCEPT !.realigned =
                    alignTick(1000 * tickMath.aligned, tickMath.tickSpacing,
                              tickMath.roundUp)]
  /\ pc' = "realigned"
  /\ UNCHANGED <<ctx, envVars, inRangePositions, closeBalances, stats,
                 baselineVars, frame, calls, lastError, lastSeparation,
                 inFlight, recordFailed, config, mints, lastSwap>>
  /\ UNCHANGED oracle
  /\ UNCHANGED swapService
  /\ UNCHANGED startup
  /\ UNCHANGED tracking

AlignNext == AlignOnce \/ AlignAgain

AlignSpec == AlignInit /\ [][AlignNext]_vars

\* The oracle service on its own: its public methods called in any order
\* on a pool of any tick spacing whose price moves.
OracleConfigs ==
  { [widthPercent |-> WidthPercent, tickSpacing |-> s] : s \in PlanSpacings }

OracleInit ==
  /\ pc = "oracle"
  /\ ctx = "init"
  /\ pool \in InitialTicks
  /\ wallet = [token0 |-> 0, token1 |-> 0]
  /\ chain = <<>>
  /\ nextTokenId = 1
  /\ inRangePositions = [upper |-> NoPosition, lower |-> NoPosition]
  /\ closeBalances = [token0 |-> 0, token1 |-> 0]
  /\ stats = [totalFeesCollectedToken0 |-> 0,
              totalFeesCollectedToken1 |-> 0,
              totalRebalanceCount |-> 0]
  /\ lastRebalancePrice = 0
  /\ lastRebalanceSqrtPriceX96 = 0
  /\ frame = NoFrame
  /\ calls = <<>>
  /\ lastError = "none"
  /\ lastSeparation = NoSeparation
  /\ inFlight = 0
  /\ recordFailed = FALSE
  /\ mints = <<>>
  /\ lastSwap = NoSwap
  /\ tickMath = NoTickMath
  /\ config \in OracleConfigs
  /\ oracle = NoOracle
  /\ swapService = NoSwapService
  /\ startup = NoStartup
  /\ tracking = NoTracking

\* What a call of the oracle service leaves alone.
oracleRest ==
  <<pc, ctx, envVars, inRangePositions, closeBalances, stats, baselineVars,
    frame, calls, lastError, lastSeparation, inFlight, recordFailed, config,
    mints, lastSwap, tickMath>>

ServiceInitialize ==
  /\ pc = "oracle"
  /\ \E ok \in BOOLEAN :
       oracle' = [oracleInitialize(oracle, ok, config.tickSpacing) EXCEPT
                    !.result = [NoResult EXCEPT !.op = "initialize", !.ok = ok]]
  /\ UNCHANGED oracleRest
  /\ UNCHANGED swapService
  /\ UNCHANGED startup
  /\ UNCHANGED tracking

GetTickSpacing ==
  /\ pc = "oracle"
  /\ oracle' = [oracle EXCEPT !.result = getTickSpacing(oracle)]
  /\ UNCHANGED oracleRest
  /\ UNCHANGED swapService
  /\ UNCHANGED startup
  /\ UNCHANGED tracking

GetOraclePrice ==
  /\ pc = "oracle"
  /\ \E readOk \in BOOLEAN :
       oracle' = [oracle EXCEPT
                    !.result = getOraclePrice(pool, readOk),
                    !.readUninitialized = @ \/ oracle.tickSpacing = NoSpacing]
  /\ UNCHANGED oracleRest
  /\ UNCHANGED swapService
  /\ UNCHANGED startup
  /\ UNCHANGED tracking

PoolMove ==
  /\ pc = "oracle"
  /\ \E tick \in PoolTicks \ {pool} : pool' = tick
  /\ UNCHANGED <<pc, ctx, wallet, chain, nextTokenId, inRangePositions,
                 closeBalances, stats, baselineVars, frame, calls, lastError,
                 lastSeparation, inFlight, recordFailed, config, mints,
                 lastSwap, tickMath, oracle>>
  /\ UNCHANGED swapService
  /\ UNCHANGED startup
  /\ UNCHANGED tracking

OracleNext == ServiceInitialize \/ GetTickSpacing \/ GetOraclePrice \/ PoolMove

OracleSpec == OracleInit /\ [][OracleNext]_vars

\* The swap service on its own: swaps of any token and amount against any
\* router allowance, one call at a time.
SwapInit ==
  /\ pc = "swapService"
  /\ ctx = "init"
  /\ pool \in InitialTicks
  /\ wallet = [token0 |-> 0, token1 |-> 0]
  /\ chain = <<>>
  /\ nextTokenId = 1
  /\ inRangePositions = [upper |-> NoPosition, lower |-> NoPosition]
  /\ closeBalances = [token0 |-> 0, token1 |-> 0]
  /\ stats = [totalFeesCollectedToken0 |-> 0,
              totalFeesCollectedToken1 |-> 0,
              totalRebalanceCount |-> 0]
  /\ lastRebalancePrice = 0
  /\ lastRebalanceSqrtPriceX96 = 0
  /\ frame = NoFrame
  /\ calls = <<>>
  /\ lastError = "none"
  /\ lastSeparation = NoSeparation
  /\ inFlight = 0
  /\ recordFailed = FALSE
  /\ mints = <<>>
  /\ lastSwap = NoSwap
  /\ tickMath = NoTickMath
  /\ config \in Configs
  /\ oracle = NoOracle
  /\ \E a0 \in RouterAllowances, a1 \in RouterAllowances :
       swapService = [NoSwapService EXCEPT
                        !.allowance = [token0 |-> a0, token1 |-> a1]]
  /\ startup = NoStartup
  /\ tracking = NoTracking

\* What a step of the swap service leaves alone.
swapRest ==
  <<ctx, envVars, inRangePositions, closeBalances, stats, baselineVars,
    frame, calls, lastError, lastSeparation, inFlight, recordFailed, config,
    mints, lastSwap, tickMath, oracle>>

\* SwapService.swap up to ensureAllowance's look at the cache: native ETH
\* and a cached unlimited allowance go straight to the swap request.
SwapBegin ==
  /\ pc = "swapService"
  /\ \E fromToken \in SwapTokens, amount \in SwapAmounts :
       LET cachedUnlimited ==
             /\ ~isNativeETH(fromToken)
             /\ swapService.allowanceCache[fromToken] = MaxUint256
       IN /\ swapService' =
               [swapService EXCEPT
                  !.call = [NoSwapCall EXCEPT !.fromToken = fromToken,
                                              !.amount = amount,
                                              !.cachedUnlimited = cachedUnlimited]]
          /\ pc' = IF isNativeETH(fromToken) \/ cachedUnlimited
                     THEN "submit" ELSE "checkAllowance"
  /\ UNCHANGED swapRest
  /\ UNCHANGED startup
  /\ UNCHANGED tracking

\* SwapService.checkAllowance: the allowance read from the API is cached;
\* a failed read is answered with 0.  ensureAllowance approves when the
\* answer is below the amount.
CheckAllowance ==
  /\ pc = "checkAllowance"
  /\ \E readOk \in BOOLEAN :
       LET token == swapService.call.fromToken
           allowance == IF readOk THEN swapService.allowance[token] ELSE 0
       IN /\ swapService' =
               [swapService EXCEPT
                  !.allowanceCache[token] = IF readOk THEN allowance ELSE @,
                  !.call.checked = TRUE,
                  !.call.readOk = readOk,
                  !.call.allowanceRead = allowance]
          /\ pc' = IF allowance < swapService.call.amount
                     THEN "approve" ELSE "submit"
  /\ UNCHANGED swapRest
  /\ UNCHANGED startup
  /\ UNCHANGED tracking

\* SwapService.approveToken inside the try block of ensureAllowance: the
\* approval of MaxUint256 is sent and awaited; when it fails the catch
\* block approves again.
ApproveToken ==
  /\ pc = "approve"
  /\ \E ok \in BOOLEAN :
       LET token == swapService.call.fromToken
       IN IF ok
            THEN /\ swapService' =
                      [swapService EXCEPT
                         !.allowance[token] = MaxUint256,
                         !.allowanceCache[token] = MaxUint256,
                         !.call.approvalConfirmed = TRUE]
                 /\ pc' = "submit"
            ELSE /\ UNCHANGED swapService
                 /\ pc' = "approveAgain"
  /\ UNCHANGED swapRest
  /\ UNCHANGED startup
  /\ UNCHANGED tracking

\* The approval in the catch block of ensureAllowance; its error rejects
\* swap before any swap request.
ApproveAgain ==
  /\ pc = "approveAgain"
  /\ \E ok \in BOOLEAN :
       LET token == swapService.call.fromToken
           next == afterApprovalRetry(ok)
       IN /\ swapService' =
               IF ok
                 THEN [swapService EXCEPT
                         !.allowance[token] = MaxUint256,
                         !.allowanceCache[token] = MaxUint256,
                         !.call.approvalConfirmed = TRUE]
                 ELSE [swapService EXCEPT !.call.failed = (next = "throw")]
          /\ pc' = IF next = "throw" THEN "swapService" ELSE next
  /\ UNCHANGED swapRest
  /\ UNCHANGED startup
  /\ UNCHANGED tracking

\* The swap request to the API and the swap transaction: the transaction
\* is sent when the API answered with one; a confirmed swap of a token
\* spends its allowance unless that is unlimited.
SubmitSwap ==
  /\ pc = "submit"
  /\ \E apiOk \in BOOLEAN, txOk \in BOOLEAN :
       LET token == swapService.call.fromToken
           amount == swapService.call.amount
           allowance == IF isNativeETH(token)
                          THEN MaxUint256 ELSE swapService.allowance[token]
           spent == /\ apiOk /\ txOk /\ ~isNativeETH(token)
                    /\ allowance >= amount /\ allowance # MaxUint256
       IN swapService' =
            [swapService EXCEPT
               !.allowance = IF spent
                               THEN [@ EXCEPT ![token] = allowance - amount]
                               ELSE @,
               !.call.txSubmitted = apiOk,
               !.call.allowanceAtSubmit = IF apiOk THEN allowance ELSE 0,
               !.call.failed = ~(apiOk /\ txOk /\ allowance >= amount)]
  /\ pc' = "swapService"
  /\ UNCHANGED swapRest
  /\ UNCHANGED startup
  /\ UNCHANGED tracking

SwapNext ==
  SwapBegin \/ CheckAllowance \/ ApproveToken \/ ApproveAgain \/ SubmitSwap

SwapSpec == SwapInit /\ [][SwapNext]_vars

\* The conversions on their own: tickToPrice, priceToTick and tickToPrice
\* again, applied to every tick.
RoundTripInit ==
  /\ pc = "convert"
  /\ ctx = "init"
  /\ pool \in InitialTicks
  /\ wallet = [token0 |-> 0, token1 |-> 0]
  /\ chain = <<>>
  /\ nextTokenId = 1
  /\ inRangePositions = [upper |-> NoPosition, lower |-> NoPosition]
  /\ closeBalances = [token0 |-> 0, token1 |-> 0]
  /\ stats = [totalFeesCollectedToken0 |-> 0,
              totalFeesCollectedToken1 |-> 0,
              totalRebalanceCount |-> 0]
  /\ lastRebalancePrice = 0
  /\ lastRebalanceSqrtPriceX96 = 0
  /\ frame = NoFrame
  /\ calls = <<>>
  /\ lastError = "none"
  /\ lastSeparation = NoSeparation
  /\ inFlight = 0
  /\ recordFailed = FALSE
  /\ mints = <<>>
  /\ lastSwap = NoSwap
  /\ config \in Configs
  /\ \E tick \in RoundTripTicks, tickSpacing \in PlanSpacings :
       tickMath = [NoTickMath EXCEPT !.tick = 1000 * tick,
                                     !.tickSpacing = tickSpacing]
  /\ oracle = NoOracle
  /\ swapService = NoSwapService
  /\ startup = NoStartup
  /\ tracking = NoTracking

ToPrice ==
  /\ pc = "convert"
  /\ tickMath' = [tickMath EXCEPT !.price = tickToPrice(tickMath.tick)]
  /\ pc' = "priced"
  /\ UNCHANGED <<ctx, envVars, inRangePositions, closeBalances, stats,
                 baselineVars, frame, calls, lastError, lastSeparation,
                 inFlight, recordFailed, config, mints, lastSwap>>
  /\ UNCHANGED oracle
  /\ UNCHANGED swapService
  /\ UNCHANGED startup
  /\ UNCHANGED tracking

ToTick ==
  /\ pc = "priced"
  /\ tickMath' = [tickMath EXCEPT !.tickBack = priceToTick(tickMath.price)]
  /\ pc' = "ticked"
  /\ UNCHANGED <<ctx, envVars, inRangePositions, closeBalances, stats,
                 baselineVars, frame, calls, lastError, lastSeparation,
                 inFlight, recordFailed, config, mints, lastSwap>>
  /\ UNCHANGED oracle
  /\ UNCHANGED swapService
  /\ UNCHANGED startup
  /\ UNCHANGED tracking

BackToPrice ==
  /\ pc = "ticked"
  /\ tickMath' = [tickMath EXCEPT !.priceBack = tickToPrice(tickMath.tickBack)]
  /\ pc' = "repriced"
  /\ UNCHANGED <<ctx, envVars, inRangePositions, closeBalances, stats,
                 baselineVars, frame, calls, lastError, lastSeparation,
                 inFlight, recordFailed, config, mints, lastSwap>>
  /\ UNCHANGED oracle
  /\ UNCHANGED swapService
  /\ UNCHANGED startup
  /\ UNCHANGED tracking

RoundTripNext == ToPrice \/ ToTick \/ BackToPrice

RoundTripSpec == RoundTripInit /\ [][RoundTripNext]_vars

\* The startup of the strategy with a wallet that already holds positions.
StartupInit ==
  /\ pc = initializeOrder[1]
  /\ ctx = "init"
  /\ pool \in InitialTicks
  /\ wallet \in InitialWallets
  /\ chain \in StartupChains
  /\ nextTokenId = Len(chain) + 1
  /\ inRangePositions = [upper |-> NoPosition, lower |-> NoPosition]
  /\ closeBalances = [token0 |-> 0, token1 |-> 0]
  /\ stats = [totalFeesCollectedToken0 |-> 0,
              totalFeesCollectedToken1 |-> 0,
              totalRebalanceCount |-> 0]
  /\ lastRebalancePrice = 0
  /\ lastRebalanceSqrtPriceX96 = 0
  /\ frame = NoFrame
  /\ calls = <<>>
  /\ lastError = "none"
  /\ lastSeparation = NoSeparation
  /\ inFlight = 0
  /\ recordFailed = FALSE
  /\ config \in Configs
  /\ mints = <<>>
  /\ lastSwap = NoSwap
  /\ tickMath = NoTickMath
  /\ oracle = NoOracle
  /\ swapService = NoSwapService
  /\ startup = NoStartup
  /\ tracking = NoTracking

StartupNext ==
  \/ OracleInitialize
  \/ StartTracking
  \/ Initialize
  \/ HandleStray
  \/ EnsureBalanced5050
  \/ MintUpper
  \/ MintLower
  \/ UnwindUpper

StartupSpec == StartupInit /\ [][StartupNext]_vars

\* ------------------------------------------------ data tracking service

\* DataTrackingService.flushPriceDataBuffer up to its first await: nothing
\* to do on an empty buffer or, unless forced, on a buffer shorter than
\* max(2, maxBufferSize / 2); otherwise the buffer is copied and cleared
\* and the writes of the copy begin.
flushPriceDataBuffer(t, forceFlush, owner) ==
  IF Len(t.priceDataBuffer) = 0
    THEN t
  ELSE IF ~forceFlush /\ (Len(t.priceDataBuffer) < 2
                          \/ 2 * Len(t.priceDataBuffer) < maxBufferSize)
    THEN t
  ELSE [t EXCEPT !.priceDataBuffer = <<>>,
                 !.flushes = @ \cup {[dataToFlush |-> t.priceDataBuffer,
                                      next |-> 1, owner |-> owner]}]

\* flushPriceDataBuffer, its catch block: the buffer as it is now, followed
\* by the buffer again, or by its newest maxBufferSize points when it holds
\* more than twice maxBufferSize.
bufferAfterFailedFlush(buffer) ==
  buffer \o (IF Len(buffer) > maxBufferSize * 2
               THEN SubSeq(buffer, Len(buffer) - maxBufferSize + 1, Len(buffer))
               ELSE buffer)

\* DataTrackingService.collectAndStoreData after the oracle has answered:
\* the point is appended, and the buffer is flushed when it is full, when
\* the last flush is long ago or when the price changed significantly; a
\* first price is always significant.
collectAndStoreData(t, significant, timeDue, owner) ==
  LET isSignificantChange == significant \/ ~t.lastSavedPrice
      pushed == [t EXCEPT !.priceDataBuffer = Append(@, t.nextPoint),
                          !.nextPoint = @ + 1]
      shouldFlush == \/ Len(pushed.priceDataBuffer) >= maxBufferSize
                     \/ timeDue
                     \/ isSignificantChange
  IN IF shouldFlush
       THEN flushPriceDataBuffer(pushed, isSignificantChange, owner)
       ELSE pushed

\* What the tracking service leaves alone.
trackingRest ==
  <<pc, ctx, envVars, inRangePositions, closeBalances, stats, baselineVars,
    frame, calls, lastError, lastSeparation, inFlight, recordFailed, config,
    mints, lastSwap, tickMath, oracle, swapService, startup>>

TrackingInit ==
  /\ pc = "tracking"
  /\ ctx = "init"
  /\ pool \in InitialTicks
  /\ wallet = [token0 |-> 0, token1 |-> 0]
  /\ chain = <<>>
  /\ nextTokenId = 1
  /\ inRangePositions = [upper |-> NoPosition, lower |-> NoPosition]
  /\ closeBalances = [token0 |-> 0, token1 |-> 0]
  /\ stats = [totalFeesCollectedToken0 |-> 0,
              totalFeesCollectedToken1 |-> 0,
              totalRebalanceCount |-> 0]
  /\ lastRebalancePrice = 0
  /\ lastRebalanceSqrtPriceX96 = 0
  /\ frame = NoFrame
  /\ calls = <<>>
  /\ lastError = "none"
  /\ lastSeparation = NoSeparation
  /\ inFlight = 0
  /\ recordFailed = FALSE
  /\ mints = <<>>
  /\ lastSwap = NoSwap
  /\ tickMath = NoTickMath
  /\ config \in {c \in Configs : c.widthPercent = WidthPercent}
  /\ oracle = NoOracle
  /\ swapService = NoSwapService
  /\ startup = NoStartup
  /\ tracking = NoTracking

\* DataTrackingService.startTracking up to its first await: a call while
\* tracking is active returns at once; otherwise the flag is set and the
\* first collection begins with the read of the oracle price.
StartTrackingCall ==
  /\ pc = "tracking"
  /\ tracking' = IF tracking.isTracking
                   THEN tracking
                   ELSE [tracking EXCEPT !.isTracking = TRUE,
                                         !.starting = "collect",
                                         !.stopCalled = FALSE]
  /\ UNCHANGED trackingRest

\* The first collection of startTracking once the oracle has answered or
\* thrown; an error is caught inside collectAndStoreData.
StartTrackingCollect ==
  /\ pc = "tracking"
  /\ tracking.starting = "collect"
  /\ \/ tracking' = [tracking EXCEPT !.starting = "flush"]
     \/ /\ tracking.nextPoint <= MaxPoints
        /\ \E significant \in BOOLEAN, timeDue \in BOOLEAN :
             tracking' = [collectAndStoreData(tracking, significant, timeDue,
                                              "start")
                            EXCEPT !.starting = "flush"]
  /\ UNCHANGED trackingRest

\* startTracking after its first collection has returned: both interval
\* timers are created and their handles stored.
StartTrackingResume ==
  /\ pc = "tracking"
  /\ tracking.starting = "flush"
  /\ \A f \in tracking.flushes : f.owner # "start"
  /\ tracking' = [tracking EXCEPT !.starting = "none",
                                  !.trackingInterval = TRUE,
                                  !.collectTimers = @ + 1,
                                  !.bufferFlushInterval = TRUE,
                                  !.flushTimers = @ + 1]
  /\ UNCHANGED trackingRest

\* DataTrackingService.stopTracking: without the flag or without the
\* handle of the collection timer it returns; otherwise it clears the
\* timers whose handles it holds, starts a forced flush that it does not
\* await and resets the flag.
StopTracking ==
  /\ pc = "tracking"
  /\ tracking' =
       IF ~tracking.isTracking \/ ~tracking.trackingInterval
         THEN [tracking EXCEPT !.stopCalled = TRUE]
         ELSE [flushPriceDataBuffer(
                 [tracking EXCEPT
                    !.collectTimers = @ - 1,
                    !.trackingInterval = FALSE,
                    !.flushTimers = IF tracking.bufferFlushInterval
                                      THEN @ - 1 ELSE @,
                    !.bufferFlushInterval = FALSE],
                 TRUE, "stop")
                 EXCEPT !.isTracking = FALSE, !.stopCalled = TRUE]
  /\ UNCHANGED trackingRest

\* The collection timer fires: collectAndStoreData once the oracle has
\* answered; when the oracle throws the error is caught and nothing else
\* happens.
CollectTimer ==
  /\ pc = "tracking"
  /\ tracking.collectTimers > 0
  /\ tracking.nextPoint <= MaxPoints
  /\ \E significant \in BOOLEAN, timeDue \in BOOLEAN :
       tracking' = collectAndStoreData(tracking, significant, timeDue, "timer")
  /\ UNCHANGED trackingRest

\* The flush timer fires: a forced flush.
FlushTimer ==
  /\ pc = "tracking"
  /\ tracking.flushTimers > 0
  /\ tracking.priceDataBuffer # <<>>
  /\ tracking' = flushPriceDataBuffer(tracking, TRUE, "timer")
  /\ UNCHANGED trackingRest

\* A flush in flight gets the answer of one savePriceData: the point was
\* stored; or the insert failed, which DatabaseService.savePriceData logs
\* and swallows; or the connection could not be opened and savePriceData
\* throws into the catch block of the flush.  After the last point the
\* flush notes the last saved price and returns.
FlushWrite ==
  /\ pc = "tracking"
  /\ \E f \in tracking.flushes :
      \E outcome \in {"stored", "swallowed", "thrown"} :
       LET point == f.dataToFlush[f.next]
           others == tracking.flushes \ {f}
           going == IF f.next = Len(f.dataToFlush)
                      THEN others
                      ELSE others \cup {[f EXCEPT !.next = @ + 1]}
           saved == tracking.lastSavedPrice \/ f.next = Len(f.dataToFlush)
       IN tracking' =
            CASE outcome = "stored" ->
                   [tracking EXCEPT !.written[point] = @ + 1,
                                    !.flushes = going,
                                    !.lastSavedPrice = saved]
              [] outcome = "swallowed" ->
                   [tracking EXCEPT !.flushes = going,
                                    !.lastSavedPrice = saved]
              [] outcome = "thrown" ->
                   [tracking EXCEPT
                      !.flushes = others,
                      !.priceDataBuffer = bufferAfterFailedFlush(@),
                      !.lastFailed = f.dataToFlush]
  /\ UNCHANGED trackingRest

TrackingNext ==
  \/ StartTrackingCall
  \/ StartTrackingCollect
  \/ StartTrackingResume
  \/ StopTracking
  \/ CollectTimer
  \/ FlushTimer
  \/ FlushWrite

TrackingSpec == TrackingInit /\ [][TrackingNext]_vars

\* Fairness: the monitoring loop keeps running and every awaited call
\* returns (weak fairness of the program steps); external calls that can
\* succeed infinitely often eventually do (strong fairness of the steps
\* that end without an error).
ProgramStep ==
  \/ OracleInitialize
  \/ StartTracking
  \/ Initialize
  \/ EnsureBalanced5050
  \/ MintUpper
  \/ MintLower
  \/ UnwindUpper
  \/ UpdateRebalanceBaseline
  \/ StrategyCheck
  \/ CloseLower
  \/ CloseUpper
  \/ ResetPositions

Succeeds ==
  IF pc = "unwind"
    THEN IsNull(inRangePositions'.upper)
    ELSE lastError' = "none" /\ pc' # "unwind"

FairSpec ==
  /\ Spec
  /\ WF_vars(ProgramStep)
  /\ SF_vars(ProgramStep /\ Succeeds)

\* ============================================================ properties

Quiescent == pc \in {"idle", "exited"}
BothEmpty == IsNull(inRangePositions.upper) /\ IsNull(inRangePositions.lower)
BothHeld == ~IsNull(inRangePositions.upper) /\ ~IsNull(inRangePositions.lower)
LastCall == calls[Len(calls)]
SlotOf(op) == IF op = "closeLower" THEN "lower" ELSE "upper"

\* C1: at every quiescent point (initialize has returned or thrown, or the
\* monitoring loop is between two iterations) the ledger holds both
\* positions or none, never exactly one.
C1_NoLonePosition ==
  Quiescent => (IsNull(inRangePositions.upper) <=> IsNull(inRangePositions.lower))

\* C2: a failed lower mint follows a successful upper mint and is followed
\* by a close of exactly that upper position; the failure is propagated,
\* and when the close returns amounts the ledger ends with no occupied slot
\* and closeBalances is the pre-mint balance less what the upper mint used
\* plus what the close returned.
C2_UnwindClosesSurvivor ==
  \A i \in 1..Len(calls) :
    (calls[i].op = "mintLower" /\ ~calls[i].ok) =>
      /\ i >= 2
      /\ calls[i - 1].op = "mintUpper"
      /\ calls[i - 1].ok
      /\ IF i = Len(calls)
           THEN /\ pc = "unwind"
                /\ inRangePositions.upper.tokenId = calls[i - 1].tokenId
           ELSE /\ i + 1 = Len(calls)
                /\ calls[i + 1].op = "closeUnwind"
                /\ calls[i + 1].tokenId = calls[i - 1].tokenId
                /\ Quiescent
                /\ lastError = "lowerMint"
                /\ calls[i + 1].ok =>
                     /\ BothEmpty
                     /\ closeBalances.token0 =
                          frame.totalToken0 - calls[i - 1].amount0
                            + calls[i + 1].amount0
                     /\ closeBalances.token1 =
                          frame.totalToken1 - calls[i - 1].amount1
                            + calls[i + 1].amount1

C2_Unwound ==
  /\ Len(calls) >= 3
  /\ LastCall.op = "closeUnwind"
  /\ LastCall.ok
  /\ LastCall.amount0 > 0
  /\ calls[Len(calls) - 1].op = "mintLower"

\* C3: a failed upper mint is the last call of its cycle (no lower mint
\* follows), leaves both slots empty and closeBalances at its value before
\* the attempt, and its error is propagated.
C3_UpperMintFailureAborts ==
  \A i \in 1..Len(calls) :
    (calls[i].op = "mintUpper" /\ ~calls[i].ok) =>
      /\ i = Len(calls)
      /\ Quiescent
      /\ lastError = "upperMint"
      /\ BothEmpty
      /\ closeBalances.token0 = frame.totalToken0
      /\ closeBalances.token1 = frame.totalToken1

C3_UpperMintFailed ==
  /\ Len(calls) >= 1
  /\ LastCall.op = "mintUpper"
  /\ ~LastCall.ok
  /\ frame.totalToken0 > 0
  /\ Quiescent

\* C4: with both positions held, a strategy check whose oracle read
\* succeeded starts closing exactly when the tick is strictly below
\* lower.tickLower - 2*tickSpacing or strictly above
\* upper.tickUpper + 2*tickSpacing; otherwise, and in particular at either
\* threshold, it issues no call and changes neither ledger nor balances.
C4_Check ==
  (pc = "idle" /\ BothHeld /\ pool' = pool /\ lastError' = "none") =>
    IF \/ pool < inRangePositions.lower.tickLower - 2 * TickSpacing
       \/ pool > inRangePositions.upper.tickUpper + 2 * TickSpacing
      THEN pc' = "close_lower"
      ELSE /\ pc' = "idle"
           /\ calls' = <<>>
           /\ UNCHANGED <<wallet, chain, inRangePositions, closeBalances>>

C4_StrictThresholds == [][C4_Check]_vars

C4_CheckedAtThreshold ==
  /\ pc = "idle"
  /\ ctx = "strategy"
  /\ BothHeld
  /\ calls = <<>>
  /\ lastError = "none"
  /\ pool = inRangePositions.upper.tickUpper + 2 * TickSpacing

\* C5: the fees separatePrincipalAndFees reports for a closed position are
\* max(0, received - recorded principal) for each token, never negative.
C5_FeeFloor ==
  /\ lastSeparation.fees0 =
       Max(0, lastSeparation.received0 - lastSeparation.principal0)
  /\ lastSeparation.fees1 =
       Max(0, lastSeparation.received1 - lastSeparation.principal1)
  /\ lastSeparation.fees0 >= 0
  /\ lastSeparation.fees1 >= 0

C5_ReceivedBelowPrincipal ==
  /\ lastSeparation.tokenId # 0
  /\ lastSeparation.received0 < lastSeparation.principal0
  /\ lastSeparation.received1 > lastSeparation.principal1

\* C6: at every quiescent point the tracked closeBalances equal the
\* balances the wallet really holds.
C6_BalanceConservation ==
  Quiescent => /\ closeBalances.token0 = wallet.token0
               /\ closeBalances.token1 = wallet.token1

\* C7: once a cycle has failed on a swap or a mint and left both slots
\* empty, with token ids left for two more mints, the system eventually
\* holds both positions again.
C7_RetryReachesHolding ==
  (/\ pc = "idle"
   /\ BothEmpty
   /\ lastError \in {"swap", "upperMint", "lowerMint"}
   /\ nextTokenId + 1 <= MaxTokenId)
    ~> (pc = "idle" /\ BothHeld)

\* C8: a failed close of a slot is the last call of its iteration (no swap
\* and no mint follows), its error ends the check, and the slot keeps its
\* position.
C8_CloseFailureAborts ==
  \A i \in 1..Len(calls) :
    (calls[i].op \in {"closeLower", "closeUpper"} /\ ~calls[i].ok) =>
      /\ i = Len(calls)
      /\ pc = "idle"
      /\ lastError = "close"
      /\ inRangePositions[SlotOf(calls[i].op)].tokenId = calls[i].tokenId

C8_SiblingCloseFailed ==
  /\ Len(calls) = 2
  /\ calls[1].op = "closeLower"
  /\ calls[1].ok
  /\ calls[2].op = "closeUpper"
  /\ ~calls[2].ok

\* C9: after an iteration in which the close of the lower slot succeeded
\* and the close of the upper slot failed, the closes are eventually
\* completed and the cycle reaches balancing, unless the price has come
\* back within the thresholds.
C9_CloseRetryCompletes ==
  (pc = "idle" /\ C8_SiblingCloseFailed)
    ~> (pc = "balance" \/ ~isPriceBeyondTickThreshold(inRangePositions, pool))

\* C10: between iterations, a slot whose close succeeded in the last
\* iteration no longer holds the closed position.
C10_ClosedSlotCleared ==
  pc = "idle" =>
    \A i \in 1..Len(calls) :
      (calls[i].op \in {"closeLower", "closeUpper"} /\ calls[i].ok) =>
        inRangePositions[SlotOf(calls[i].op)].tokenId # calls[i].tokenId

\* C11: when the close of the unwind itself fails, the cycle does not end
\* like an ordinary lower-mint failure: the error that reaches the caller
\* is distinguishable from the one of a lower-mint failure whose unwind
\* succeeded, so the monitor does not go on as usual with a lone position.
C11_UnwindFailureEscalated ==
  (/\ Quiescent
   /\ Len(calls) > 0
   /\ LastCall.op = "closeUnwind"
   /\ ~LastCall.ok)
    => lastError # "lowerMint"

C13_SingleFlight ==
  /\ inFlight \in {0, 1}
  /\ pc = "idle" => inFlight = 0

C13_CheckInFlight ==
  /\ inFlight = 1
  /\ ctx = "strategy"
  /\ pc = "close_upper"

\* C14: an error in one iteration never ends the monitoring loop: whenever
\* an iteration has ended with an error the process has not exited, the
\* loop is back at its head, and the next strategy check can be started.
C14_LoopSurvivesErrors ==
  (ctx = "strategy" /\ lastError # "none") =>
    /\ pc = "idle"
    /\ ENABLED StrategyCheck

C14_IterationFailed ==
  /\ ctx = "strategy"
  /\ lastError = "close"
  /\ pc = "idle"
  /\ ~BothEmpty

\* C15: a record* call that fails at the database does not change the
\* course of the cycle: after a successful mint or close whose record
\* failed, no error has ended the cycle, it is at the step that follows a
\* recorded success, and the ledger holds the minted position; after a
\* failed call the error is the one of that call.
C15_RecordFailureHarmless ==
  recordFailed =>
    /\ Len(calls) > 0
    /\ CASE LastCall.op = "mintUpper" ->
              IF LastCall.ok
                THEN /\ pc = "open_lower"
                     /\ lastError = "none"
                     /\ inRangePositions.upper.tokenId = LastCall.tokenId
                ELSE lastError = "upperMint"
         [] LastCall.op = "mintLower" ->
              /\ LastCall.ok
              /\ pc \in {"idle", "baseline"}
              /\ lastError = "none"
              /\ inRangePositions.lower.tokenId = LastCall.tokenId
         [] LastCall.op = "closeUnwind" -> lastError = "lowerMint"
         [] LastCall.op = "closeLower" ->
              LastCall.ok /\ pc = "close_upper" /\ lastError = "none"
         [] LastCall.op = "closeUpper" ->
              LastCall.ok /\ pc = "closed" /\ lastError = "none"
         [] OTHER -> FALSE

C15_RecordFailedCycleGoesOn ==
  /\ recordFailed
  /\ pc = "closed"
  /\ LastCall.op = "closeUpper"
  /\ closeBalances.token1 > 0

PlannedLower == frame.lowerPositionTicks.lower
PlannedTransition == frame.lowerPositionTicks.upper
PlannedUpper == frame.upperPositionTicks.upper
PlannedMultiples ==
  /\ PlannedLower % config.tickSpacing = 0
  /\ PlannedTransition % config.tickSpacing = 0
  /\ PlannedUpper % config.tickSpacing = 0
  /\ frame.upperPositionTicks.lower = PlannedTransition

\* C16 as stated: for every planner input the aligned ticks are strictly
\* ordered, lowerBoundTick < transitionTick < upperBoundTick, and all three
\* are multiples of tickSpacing.
C16_StrictRangeOrdering ==
  pc = "planned" =>
    /\ PlannedLower < PlannedTransition
    /\ PlannedTransition < PlannedUpper
    /\ PlannedMultiples

\* C16 amended: for every planner input the aligned ticks satisfy
\* lowerBoundTick <= transitionTick < upperBoundTick and all three are
\* multiples of tickSpacing; lowerBoundTick < transitionTick holds whenever
\* the raw lower and transition ticks are at least one tickSpacing apart.
C16_RangeOrdering ==
  pc = "planned" =>
    LET points == PricePoints(frame.currentPrice, config.widthPercent)
        rawGap == priceToTick(points.transitionPrice)
                    - priceToTick(points.lowerPositionLowerPrice)
    IN /\ PlannedLower <= PlannedTransition
       /\ PlannedTransition < PlannedUpper
       /\ PlannedMultiples
       /\ rawGap >= 1000 * config.tickSpacing => PlannedLower < PlannedTransition

C16_CollapsedLowerRange ==
  /\ pc = "planned"
  /\ PlannedLower = PlannedTransition
  /\ frame.currentPrice = 2500
  /\ config.tickSpacing = TickSpacing

\* C17: a cycle whose range plan is degenerate (lowerBoundTick =
\* transitionTick or transitionTick = upperBoundTick) issues no mint call,
\* neither for the upper nor for the lower position.
C17_DegeneratePlanRejected ==
  \A i \in 1..Len(calls) :
    calls[i].op \in {"mintUpper", "mintLower"} =>
      /\ frame.lowerPositionTicks.lower < frame.lowerPositionTicks.upper
      /\ frame.upperPositionTicks.lower < frame.upperPositionTicks.upper

LastMint == mints[Len(mints)]

\* C18: the first mint of a cycle is the upper mint, with the entire
\* tracked token0 and token1 balances as desired amounts; the lower mint is
\* issued only right after an upper mint that succeeded, with desired
\* token0 = 0 and desired token1 = totalToken1 - token1 used by the upper
\* mint; no other step issues a mint.
C18_Mint ==
  Len(mints') > Len(mints) =>
    LET request == mints'[Len(mints')]
    IN /\ Len(mints') = Len(mints) + 1
       /\ IF Len(mints) = 0
            THEN /\ request.op = "mintUpper"
                 /\ request.amount0Desired = closeBalances.token0
                 /\ request.amount1Desired = closeBalances.token1
            ELSE /\ request.op = "mintLower"
                 /\ Len(mints) = 1
                 /\ LastMint.op = "mintUpper"
                 /\ LastCall.op = "mintUpper"
                 /\ LastCall.ok
                 /\ request.amount0Desired = 0
                 /\ request.amount1Desired =
                      LastMint.amount1Desired - LastCall.amount1

C18_OpeningOrder == [][C18_Mint]_vars

C18_LowerMintedFromRemainder ==
  /\ Len(mints) = 2
  /\ LastMint.op = "mintLower"
  /\ LastCall.ok
  /\ LastMint.amount1Desired > 0
  /\ LastMint.amount1Desired < mints[1].amount1Desired

\* C19: the minimum the position manager is given for the token a mint is
\* not expected to deposit is zero: an amount1Min of 0 supplied for the
\* upper mint and an amount0Min of 0 supplied for the lower mint reach the
\* mint parameters as 0.
C19_ZeroMinimumKept ==
  \A i \in 1..Len(mints) :
    /\ mints[i].amount0Min = 0 => mints[i].params.amount0Min = 0
    /\ mints[i].amount1Min = 0 => mints[i].params.amount1Min = 0

\* C20: a balancing step issues at most one swap; it issues one only when
\* the values of the two balances differ (a tolerance of zero), never when
\* they are equal; the swap sells the token of larger value for the other
\* one, and its amount is worth half the value difference, up to the
\* rounding of the amount to a whole token.
C20_Balancing ==
  pc = "balance" =>
    LET currentPrice == PoolPrice(pool)
        token0Value == closeBalances.token0 * currentPrice
        token1Value == closeBalances.token1
        swapsIssued == Len(calls') - Len(calls)
        larger == IF token0Value > token1Value THEN "token0" ELSE "token1"
        smaller == IF token0Value > token1Value THEN "token1" ELSE "token0"
        soldValue == IF larger = "token0"
                       THEN lastSwap'.amount * currentPrice
                       ELSE lastSwap'.amount
        unit == IF larger = "token0" THEN currentPrice ELSE 1
        difference == IF token0Value > token1Value
                        THEN token0Value - token1Value
                        ELSE token1Value - token0Value
    IN /\ swapsIssued \in {0, 1}
       /\ token0Value = token1Value => swapsIssued = 0
       /\ swapsIssued = 1 =>
            /\ calls'[Len(calls')].op = "swap"
            /\ calls'[Len(calls')].amount0 = lastSwap'.amount
            /\ token0Value # token1Value
            /\ lastSwap'.fromToken = larger
            /\ lastSwap'.toToken = smaller
            /\ 2 * soldValue - difference <= unit
            /\ difference - 2 * soldValue <= unit

C21_AlignTickDirection ==
  pc \in {"aligned", "realigned"} =>
    LET aligned == 1000 * tickMath.aligned
        unit == 1000 * tickMath.tickSpacing
    IN /\ tickMath.aligned % tickMath.tickSpacing = 0
       /\ IF tickMath.roundUp
            THEN aligned >= tickMath.tick /\ aligned - unit < tickMath.tick
            ELSE aligned <= tickMath.tick /\ aligned + unit > tickMath.tick
       /\ tickMath.tick % unit = 0 => aligned = tickMath.tick

C21_NegativeTickRoundedUp ==
  /\ pc = "aligned"
  /\ tickMath.tick = -60001
  /\ tickMath.tickSpacing = 60
  /\ tickMath.roundUp
  /\ tickMath.aligned = -60

\* C22: alignment is idempotent: aligning an aligned tick again, with the
\* same spacing and direction, returns it unchanged.
C22_AlignTickIdempotent ==
  pc = "realigned" => tickMath.realigned = tickMath.aligned

C22_RealignedRoundedUp ==
  /\ pc = "realigned"
  /\ tickMath.roundUp
  /\ tickMath.tick = 78239600
  /\ tickMath.tickSpacing = 60
  /\ tickMath.realigned = 78240

C24_BaselineStored ==
  (/\ Quiescent
   /\ Len(calls) > 0
   /\ LastCall.op = "mintLower"
   /\ LastCall.ok
   /\ ~IsNull(inRangePositions.upper)
   /\ ~IsNull(inRangePositions.lower))
    => /\ lastRebalancePrice = frame.currentPrice
       /\ lastRebalanceSqrtPriceX96 \in PoolTicks

\* C25: getTickSpacing called before initialize has completed fails with
\* NotInitializedError; a call that returns returns the spacing read from
\* the pool, never the unset one.
C25_TickSpacingNeedsInitialize ==
  oracle.result.op = "getTickSpacing" =>
    IF oracle.result.ok
      THEN oracle.result.value # NoSpacing
      ELSE oracle.result.value = NoSpacing

\* C26: no consumer reads a price from the oracle service before
\* OracleService.initialize has completed: not the first collection of
\* data tracking, not the balancing, planning or threshold check of the
\* strategy.
C26_OracleInitializedFirst ==
  /\ ~oracle.readUninitialized
  /\ pc \in {"init", "balance", "idle"} => oracle.tickSpacing = config.tickSpacing

C26_TrackedBalancedAndChecked ==
  /\ pc = "idle"
  /\ ctx = "strategy"
  /\ BothHeld
  /\ oracle.tickSpacing = TickSpacing
  /\ ~oracle.readUninitialized

C28_StatsStep ==
  /\ stats'.totalFeesCollectedToken0 >= stats.totalFeesCollectedToken0
  /\ stats'.totalFeesCollectedToken1 >= stats.totalFeesCollectedToken1
  /\ stats'.totalRebalanceCount >= stats.totalRebalanceCount

C28_StatsMonotonic == [][C28_StatsStep]_vars

C28_FeesAndRebalancesCounted ==
  /\ stats.totalRebalanceCount >= 2
  /\ stats.totalFeesCollectedToken0 + stats.totalFeesCollectedToken1 > 0
  /\ lastSeparation.received0 < lastSeparation.principal0

\* C29: whenever both slots of the ledger hold a position, the two were
\* opened in the same cycle and their ranges are adjacent:
\* lower.tickLower < lower.tickUpper = upper.tickLower < upper.tickUpper,
\* all four ticks multiples of the tick spacing.
C29_AdjacentRanges ==
  BothHeld =>
    LET lower == inRangePositions.lower
        upper == inRangePositions.upper
    IN /\ lower.tickLower < lower.tickUpper
       /\ lower.tickUpper = upper.tickLower
       /\ upper.tickLower < upper.tickUpper
       /\ \A tick \in {lower.tickLower, lower.tickUpper,
                       upper.tickLower, upper.tickUpper} :
            tick % config.tickSpacing = 0
       /\ upper.tokenId + 1 = lower.tokenId

C29_ReopenedAfterRebalance ==
  /\ BothHeld
  /\ pc = "idle"
  /\ stats.totalRebalanceCount > 0
  /\ inRangePositions.lower.tickUpper = inRangePositions.upper.tickLower
  /\ inRangePositions.upper.tickLower < 78180

C31_Step ==
  \A slot \in {"upper", "lower"} :
    (~IsNull(inRangePositions[slot]) /\ IsNull(inRangePositions'[slot])) =>
      \E i \in 1..Len(calls') :
        /\ calls'[i].op \in {"closeLower", "closeUpper", "closeUnwind"}
        /\ calls'[i].tokenId = inRangePositions[slot].tokenId
        /\ calls'[i].ok

C31_LedgerLeftByCloseOnly == [][C31_Step]_vars

\* C32: no untracked position: at the end of a cycle every position whose
\* mint confirmed on chain in that cycle is either recorded in its ledger
\* slot or closed again, also when the step after the confirmed mint
\* (reading the token id from the receipt, getPositionInfo) failed.
C32_NoUntrackedPosition ==
  Quiescent =>
    \A i \in 1..Len(calls) :
      (/\ calls[i].op \in {"mintUpper", "mintLower"}
       /\ calls[i].tokenId \in DOMAIN chain) =>
        LET slot == IF calls[i].op = "mintUpper" THEN "upper" ELSE "lower"
        IN inRangePositions[slot].tokenId = calls[i].tokenId

\* C33: the amounts a successful closePosition returns equal, per token,
\* what the wallet received from closing that position: the principal and
\* the fees, each counted once.
C33_Step ==
  (/\ Len(calls') > 0
   /\ calls' # calls
   /\ calls'[Len(calls')].op \in {"closeLower", "closeUpper", "closeUnwind"}
   /\ calls'[Len(calls')].ok) =>
    /\ calls'[Len(calls')].amount0 = wallet'.token0 - wallet.token0
    /\ calls'[Len(calls')].amount1 = wallet'.token1 - wallet.token1

C33_CloseReturnsReceived == [][C33_Step]_vars


\* C34: when initializeStrategy finds exactly two positions it closes,
\* swaps and mints nothing, records the position with the smaller lower
\* tick as lower and the other as upper, and the tracked balances are the
\* wallet balances read at startup.
C34_TwoPositionsAdopted ==
  Len(startup.found) = 2 =>
    /\ pc = "idle"
    /\ calls = <<>> /\ mints = <<>> /\ lastSwap = NoSwap
    /\ DOMAIN chain = {1, 2}
    /\ {inRangePositions.lower.tokenId, inRangePositions.upper.tokenId} = {1, 2}
    /\ inRangePositions.lower.tickLower = chain[inRangePositions.lower.tokenId].tickLower
    /\ inRangePositions.upper.tickLower = chain[inRangePositions.upper.tokenId].tickLower
    /\ inRangePositions.lower.tickLower < inRangePositions.upper.tickLower
    /\ closeBalances = [token0 |-> wallet.token0, token1 |-> wallet.token1]

\* Two positions were found with the higher range listed first and were
\* adopted.
C34_AdoptedReordered ==
  /\ Len(startup.found) = 2
  /\ pc = "idle"
  /\ inRangePositions.lower.tokenId = 2
  /\ inRangePositions.upper.tokenId = 1

\* The closes handleStrayPositions has attempted.
StrayCloses == SelectSeq(calls, LAMBDA c : c.op = "closeStray")

\* C35: when the number of positions found at startup is neither 0 nor 2,
\* one close is attempted for each of them in turn, whether or not an
\* earlier one failed; nothing else is called before the last of them; a
\* successful close adds its amounts to the tracked balances once and a
\* failed one leaves them alone.
C35_StrayState ==
  Len(startup.found) \notin {0, 2} =>
    /\ Len(StrayCloses) + Len(startup.stray) = Len(startup.found)
    /\ \A i \in 1..Len(StrayCloses) :
         /\ calls[i] = StrayCloses[i]
         /\ calls[i].tokenId = startup.found[i].tokenId
    /\ startup.stray # <<>> => pc = "stray" /\ Len(calls) = Len(StrayCloses)
C35_StrayStep ==
  (calls' # calls /\ calls'[Len(calls')].op = "closeStray") =>
    LET c == calls'[Len(calls')]
    IN /\ closeBalances'.token0 = closeBalances.token0 + (IF c.ok THEN c.amount0 ELSE 0)
       /\ closeBalances'.token1 = closeBalances.token1 + (IF c.ok THEN c.amount1 ELSE 0)
C35_EveryStrayCloseAttempted == [](C35_StrayState) /\ [][C35_StrayStep]_vars

\* Three positions were found; the close of the first failed, the second
\* was closed and its amounts were added, and the opening has followed.
C35_ClosedAfterFailedClose ==
  /\ Len(startup.found) = 3
  /\ Len(StrayCloses) = 3
  /\ ~StrayCloses[1].ok
  /\ StrayCloses[2].ok /\ StrayCloses[2].amount1 > 0
  /\ Len(calls) > 3
  /\ \E i \in 1..Len(calls) : calls[i].op = "mintUpper"


\* C36: a strategy check whose tick is within the thresholds of the held
\* positions issues no close, swap or mint and leaves the ledger, the
\* tracked balances, the statistics and the rebalance baseline unchanged.
WithinThresholds ==
  /\ ~IsNull(inRangePositions.lower) =>
       pool >= inRangePositions.lower.tickLower - 2 * TickSpacing
  /\ ~IsNull(inRangePositions.upper) =>
       pool <= inRangePositions.upper.tickUpper + 2 * TickSpacing
C36_Step ==
  (pc = "idle" /\ pool' = pool /\ WithinThresholds) =>
    /\ pc' = "idle"
    /\ calls' = <<>> /\ mints' = <<>> /\ lastSwap' = NoSwap
    /\ UNCHANGED <<chain, wallet, nextTokenId>>
    /\ UNCHANGED <<inRangePositions, closeBalances, stats, baselineVars>>
C36_CheckWithinThresholdsNoEffect == [][C36_Step]_vars

\* Both positions are held, the tick has moved onto the lower threshold and
\* a check has run there or before without any rebalance.
C36_CheckedAtThreshold ==
  /\ BothHeld
  /\ pc = "idle" /\ ctx = "strategy" /\ lastError = "none"
  /\ calls = <<>>
  /\ stats.totalRebalanceCount = 0
  /\ pool = inRangePositions.lower.tickLower - 2 * TickSpacing


\* C37: with mints that consume at most the desired amounts, the tracked
\* balances of both tokens are never negative, and neither is the token1
\* amount left for the lower mint after the upper mint.
C37_TrackedBalancesNonNegative ==
  /\ closeBalances.token0 >= 0
  /\ closeBalances.token1 >= 0
  /\ frame # NoFrame => frame.totalToken1Left >= 0

\* The upper mint consumed token1 and the rest was offered to a lower
\* mint that consumed all of it.
C37_LowerMintTookTheRest ==
  /\ frame # NoFrame
  /\ frame.totalToken1Left > 0
  /\ frame.totalToken1Left < frame.totalToken1
  /\ calls # <<>>
  /\ LastCall.op = "mintLower" /\ LastCall.ok
  /\ LastCall.amount1 = frame.totalToken1Left
  /\ closeBalances.token1 = 0


\* How often a point occurs in a buffer.
Occurrences(buffer, point) ==
  Cardinality({i \in 1..Len(buffer) : buffer[i] = point})

\* C38: when a flush fails, every point that was in the buffer when the
\* flush started is in the buffer afterwards, once.
C38_Step ==
  tracking'.lastFailed # tracking.lastFailed =>
    \A i \in 1..Len(tracking'.lastFailed) :
      Occurrences(tracking'.priceDataBuffer, tracking'.lastFailed[i]) = 1
C38_FailedFlushKeepsData == [][C38_Step]_vars

\* C39: whatever the interleaving of the collection timer, the flush timer
\* and the flushes in flight, no collected point is handed to the database
\* more than once, and a point in the buffer while a flush is waiting for
\* its writes is not among the points that flush writes.
C39_HandedAtMostOnce ==
  /\ \A p \in 1..MaxPoints : tracking.written[p] <= 1
  /\ \A f \in tracking.flushes :
       \A i \in 1..Len(f.dataToFlush) :
         Occurrences(tracking.priceDataBuffer, f.dataToFlush[i]) = 0

\* C40: there is never more than one collection timer and one flush timer,
\* and once stopTracking has been called no collection timer is alive
\* until tracking is started again, also when the call came while
\* startTracking was waiting for its first collection.
C40_SingleTimersAndStopped ==
  /\ tracking.collectTimers <= 1
  /\ tracking.flushTimers <= 1
  /\ tracking.stopCalled => tracking.collectTimers = 0

====
